---- MODULE Spec2Model ----
(***************************************************************************)
(* A state-machine model of prospect/models/sedmodel.py (SpecModel,        *)
(* PolySpecModel, SedModel and their calibration subclasses) and of the    *)
(* emission-line marginalisation template of prospect/models/templates.py. *)
(*                                                                         *)
(* Floating point values are modelled as exact extended rationals <<n,d>>: *)
(* d > 0 is a finite number, <<1,0>> and <<-1,0>> are +inf and -inf and    *)
(* <<0,0>> is NaN, so that a division by zero yields what numpy yields.    *)
(* Wavelengths are small integers, velocities are in units in which the    *)
(* speed of light is ckms.                                                 *)
(***************************************************************************)
EXTENDS Integers, Sequences, FiniteSets

VARIABLES self, pc, frame, ret

vars == <<self, pc, frame, ret>>

----------------------------------------------------------------------------
(* Extended rational arithmetic (numpy float semantics without rounding).  *)

Abs(x) == IF x < 0 THEN -x ELSE x

Sign(x) == IF x < 0 THEN -1 ELSE IF x = 0 THEN 0 ELSE 1

RECURSIVE Gcd(_, _)
Gcd(a, b) == IF b = 0 THEN a ELSE Gcd(b, a % b)

\* the greatest common divisor, 1 for a pair of zeros
Gcd1(a, b) == IF a = 0 /\ b = 0 THEN 1 ELSE Gcd(a, b)

Norm(n, d) ==
    IF d = 0 THEN <<Sign(n), 0>>
    ELSE LET g == Gcd(Abs(n), Abs(d))
         IN  <<(Sign(d) * n) \div g, Abs(d) \div g>>

R(n) == <<n, 1>>

NaN == <<0, 0>>

IsFinite(a) == a[2] # 0

RAdd(a, b) ==
    IF a[2] = 0 /\ b[2] = 0
    THEN (IF a = b THEN a ELSE NaN)
    ELSE LET g == Gcd1(a[2], b[2])
         IN  Norm(a[1] * (b[2] \div g) + b[1] * (a[2] \div g), (a[2] \div g) * b[2])

RNeg(a) == <<-a[1], a[2]>>

RSub(a, b) == RAdd(a, RNeg(b))

RMul(a, b) ==
    LET g == Gcd1(Abs(a[1]), b[2])
        h == Gcd1(Abs(b[1]), a[2])
    IN  Norm((a[1] \div g) * (b[1] \div h), (a[2] \div h) * (b[2] \div g))

RDiv(a, b) ==
    LET g == Gcd1(Abs(a[1]), Abs(b[1]))
        h == Gcd1(b[2], a[2])
    IN  Norm((a[1] \div g) * (b[2] \div h), (a[2] \div h) * (b[1] \div g))

RAbs(a) == <<Abs(a[1]), a[2]>>

\* a < b; every comparison with NaN is false
RLt(a, b) ==
    /\ a # NaN
    /\ b # NaN
    /\ a # b
    /\ IF a[2] = 0 THEN a[1] < 0
       ELSE IF b[2] = 0 THEN b[1] > 0
       ELSE a[1] * b[2] < b[1] * a[2]

RGt(a, b) == RLt(b, a)

\* floor of a finite non-negative rational
RFloor(a) == a[1] \div a[2]

----------------------------------------------------------------------------
(* numpy arrays are sequences; a boolean index is a sequence of BOOLEAN.   *)

\* an array, and a matrix, with every element computed once
Array(v) == v \o <<>>

Matrix(M) == [i \in DOMAIN M |-> M[i] \o <<>>] \o <<>>

Some(x) == <<x>>

None == <<>>

RECURSIVE SumSeq(_)
SumSeq(s) == IF s = <<>> THEN R(0) ELSE RAdd(Head(s), SumSeq(Tail(s)))

AnyTrue(b) == \E k \in DOMAIN b : b[k]

\* a[mask] : the elements of a at the true positions of mask, in order
RECURSIVE Select(_, _)
Select(a, mask) ==
    IF a = <<>> \/ mask = <<>> THEN <<>>
    ELSE (IF Head(mask) THEN <<Head(a)>> ELSE <<>>) \o Select(Tail(a), Tail(mask))

Scale(v, c) == [k \in DOMAIN v |-> RMul(v[k], c)]

\* np.interp(x, xp, fp): linear interpolation, clamped to fp's ends; xp ascending
Interp(x, xp, fp) ==
    IF RLt(x, xp[1]) \/ x = xp[1] THEN fp[1]
    ELSE IF RLt(xp[Len(xp)], x) \/ x = xp[Len(xp)] THEN fp[Len(fp)]
    ELSE LET k == CHOOSE j \in 1..(Len(xp) - 1) :
                      /\ (RLt(xp[j], x) \/ xp[j] = x)
                      /\ RLt(x, xp[j + 1])
             t == RDiv(RSub(x, xp[k]), RSub(xp[k + 1], xp[k]))
         IN  RAdd(fp[k], RMul(t, RSub(fp[k + 1], fp[k])))

\* the same with left=0, right=0 outside the range of xp
InterpZero(x, xp, fp) ==
    IF RLt(x, xp[1]) \/ RLt(xp[Len(xp)], x) THEN R(0) ELSE Interp(x, xp, fp)

----------------------------------------------------------------------------
(* Program constants, in model units.                                      *)

\* speed of light in velocity units (km/s in the source)
ckms == 10

\* speed of light in wavelength units per second, and the literal 3e18 of
\* get_eline_gaussians, in model wavelength units per second
lightspeed == 12

nu_numerator == 12

\* cache_eline_parameters(self, obs, nsigma=5)
nsigma == 5

\* params.get('eline_sigma', 100.0), in model velocity units
default_eline_sigma == 1

\* params.get('lumdist', 1e-5) in Mpc, times the 1e5 of dfactor: 10 pc
default_lumdist == 1

\* to_cgs / (3631*jansky_cgs)
to_cgs_per_maggie == 2

\* cosmo.luminosity_distance(z), in units of 10 pc
cosmo_luminosity_distance(z) == RMul(R(3), z)

----------------------------------------------------------------------------
(* The emission line table ($SPS_HOME/data/emlines_info.dat, and the same  *)
(* lines as the synthesis source reports them).                            *)

LineText == <<"Hb", "Ha">>

LineRestWave == <<R(3), R(9)>>

NLine == Len(LineText)

\* a Python string object: bytes (numpy 'S20') or str (numpy '<U20', a literal)
PyBytes(t) == [kind |-> "bytes", text |-> t]

PyStr(t) == [kind |-> "str", text |-> t]

\* np.genfromtxt(..., dtype=[('wave', 'f8'), ('name', 'S20')]) ['name']
emline_info_name == [k \in 1..NLine |-> PyBytes(LineText[k])]

\* templates.py reads the same table with dtype '<U20'
info_name == [k \in 1..NLine |-> PyStr(LineText[k])]

----------------------------------------------------------------------------
(* Inputs: parameter sets, observations, synthesis sources.                *)

\* largest redshift of a parameter set
MaxZred == 1

\* largest order of the calibration polynomial
MaxPolyOrder == 2

Get(opt, default) == IF opt = None THEN default ELSE opt[1]

Flag3 == {None, Some(TRUE), Some(FALSE)}

AllowLists == {None, Some(<<PyStr("Ha")>>), Some(<<PyBytes("Ha")>>)}

ParamSetsWith(orders) ==
    { [zred |-> Some(z), mass |-> None, lumdist |-> None,
       marginalize_elines |-> marg, nebemlineinspec |-> neb,
       add_neb_emission |-> addneb, use_eline_prior |-> None,
       eline_prior_width |-> Some(R(1)), lines_to_fit |-> ltf,
       elines_to_fit |-> Some(info_name),
       eline_sigma |-> None, eline_delta_zred |-> None,
       polyorder |-> order, poly_regularization |-> None, spec_norm |-> None,
       poly_coeffs |-> None, cal_type |-> None] :
        z \in 0..MaxZred, marg \in Flag3, neb \in Flag3, addneb \in Flag3,
        ltf \in AllowLists, order \in orders }

\* polyorder is a parameter of PolySpecModel only
ParamSets(cls) ==
    IF cls = "PolySpecModel" THEN ParamSetsWith({None, Some(1)})
    ELSE ParamSetsWith({None})

NoParams ==
    [zred |-> None, mass |-> None, lumdist |-> None,
     marginalize_elines |-> None, nebemlineinspec |-> None,
     add_neb_emission |-> None, use_eline_prior |-> None,
     eline_prior_width |-> None, lines_to_fit |-> None, elines_to_fit |-> None,
     eline_sigma |-> None, eline_delta_zred |-> None,
     polyorder |-> None, poly_regularization |-> None, spec_norm |-> None,
     poly_coeffs |-> None, cal_type |-> None]

\* sedpy filters: wavelength grid, transmission curve, AB zero point
Filters ==
    << [wavelength |-> <<R(2), R(3), R(10)>>,
        transmission |-> <<R(0), R(1), R(0)>>,
        ab_zero_counts |-> R(2)] >>

GridA == <<R(2), R(4), R(6)>>

GridB == <<R(1), R(2)>>

Ones(n) == [k \in 1..n |-> R(1)]

ObsSet ==
    { [wavelength |-> Some(GridA), spectrum |-> None, unc |-> None,
       mask |-> None, filters |-> Some(<<1>>)],
      [wavelength |-> Some(GridA), spectrum |-> Some(<<R(9), R(10), R(12)>>),
       unc |-> Some(Ones(3)), mask |-> None, filters |-> Some(<<1>>)],
      [wavelength |-> Some(GridB), spectrum |-> Some(<<R(6), R(5)>>),
       unc |-> Some(Ones(2)), mask |-> None, filters |-> None],
      [wavelength |-> None, spectrum |-> None, unc |-> None,
       mask |-> None, filters |-> None] }

\* the noise covariances a caller may pass with an observation
SigmaSpecs(obs) ==
    {None} \cup
    (IF obs.wavelength = None THEN {}
     ELSE {Some([k \in 1..Len(obs.wavelength[1]) |-> R(4)])})

\* what the synthesis source does for a parameter set: the arrays it
\* returns, or the call at which it raises
SpsSet ==
    { [wave |-> <<R(1), R(5), R(10)>>, spec |-> <<R(4), R(4), R(4)>>,
       mfrac |-> R(1), eline_lum |-> <<R(1), R(2)>>, raises |-> "never",
       elines |-> "copy"],
      [wave |-> <<R(1), R(5), R(10)>>, spec |-> <<R(4), R(4), R(4)>>,
       mfrac |-> R(1), eline_lum |-> <<R(1), R(2)>>, raises |-> "spectrum",
       elines |-> "copy"],
      [wave |-> <<R(1), R(5), R(10)>>, spec |-> <<R(4), R(4), R(4)>>,
       mfrac |-> R(1), eline_lum |-> <<R(1), R(2)>>, raises |-> "elines",
       elines |-> "copy"] }

----------------------------------------------------------------------------
(* A model instance: its class, its parameter dictionary and the           *)
(* attributes that predict() caches on it.  `has` is the set of attributes *)
(* that exist (reading another one is an AttributeError); `fresh` records  *)
(* which attributes were written since the latest entry into predict().    *)

Classes == {"SpecModel", "PolySpecModel", "SedModel", "PolySedModel", "PolyFitModel"}

NewModel(cls) ==
    [cls |-> cls, params |-> NoParams, has |-> {}, fresh |-> {},
     _wave |-> <<>>, _spec |-> <<>>, _mfrac |-> R(0), _zred |-> R(0),
     _eline_wave |-> <<>>, _eline_lum |-> <<>>, _norm_spec |-> <<>>,
     _outwave |-> <<>>, _ewave_obs |-> <<>>, _eline_sigma_kms |-> <<>>,
     _elines_to_fit |-> None, _eline_wavelength_mask |-> <<>>,
     _speccal |-> <<>>, _elinespec |-> <<>>, _sed |-> <<>>,
     _ln_eline_penalty |-> <<>>, _poly_coeffs |-> <<>>]

\* self.<name> = v
Put(s, name, v) ==
    [s EXCEPT ![name] = v, !.has = @ \cup {name}, !.fresh = @ \cup {name}]

\* what a method call gives: the exception it raised (or None), the
\* instance afterwards and the value returned
Returned(s, out) == [raised |-> None, self |-> s, out |-> out]

Raised(s, exc) == [raised |-> Some(exc), self |-> s, out |-> <<>>]

\* a Python value that is a float or an array
PyFloat(x) == [kind |-> "float", val |-> x]

PyArray(v) == [kind |-> "ndarray", val |-> v]

----------------------------------------------------------------------------
(* SpecModel: the helpers of predict_spec.                                 *)

\* the grid scaled by the redshift alone
observed_wave_by_zred(s, wave, do_wavecal) ==
    IF do_wavecal THEN Raised(s, "NotImplementedError")
    ELSE Returned(s, Scale(wave, s._zred))

observed_wave(s, wave, do_wavecal) ==
    IF do_wavecal THEN Raised(s, "NotImplementedError")
    ELSE LET a == RAdd(R(1), s._zred)
         IN  Returned(s, Scale(wave, a))

\* the scaling with the distance itself, not its square, for the distance factor
flux_norm_linear_distance(s) ==
    LET lumdist == IF s._zred = R(0) \/ s.params.lumdist # None
                   THEN Get(s.params.lumdist, R(default_lumdist))
                   ELSE cosmo_luminosity_distance(s._zred)
        mass == SumSeq(Get(s.params.mass, <<R(1)>>))
        unit_conversion == RMul(R(to_cgs_per_maggie), RAdd(R(1), s._zred))
    IN  RDiv(RMul(mass, unit_conversion), lumdist)

\* the distance from the cosmology at every non-zero redshift, the lumdist
\* parameter looked at only when the redshift is 0
flux_norm_cosmology_first(s) ==
    LET lumdist == IF s._zred = R(0)
                   THEN Get(s.params.lumdist, R(default_lumdist))
                   ELSE cosmo_luminosity_distance(s._zred)
        dfactor == RMul(lumdist, lumdist)
        mass == SumSeq(Get(s.params.mass, <<R(1)>>))
        unit_conversion == RMul(R(to_cgs_per_maggie), RAdd(R(1), s._zred))
    IN  RDiv(RMul(mass, unit_conversion), dfactor)

flux_norm(s) ==
    LET lumdist == IF s._zred = R(0) \/ s.params.lumdist # None
                   THEN Get(s.params.lumdist, R(default_lumdist))
                   ELSE cosmo_luminosity_distance(s._zred)
        dfactor == RMul(lumdist, lumdist)
        mass == SumSeq(Get(s.params.mass, <<R(1)>>))
        unit_conversion == RMul(R(to_cgs_per_maggie), RAdd(R(1), s._zred))
    IN  RDiv(RMul(mass, unit_conversion), dfactor)

\* name in eline_names, for every name of the line table
NamedLines(eline_names) ==
    [k \in 1..NLine |->
        \E j \in DOMAIN eline_names : eline_names[j] = emline_info_name[k]]

\* elines_index: the lines the user restricts the fit to
ElinesIndex(params) ==
    LET eline_names == Get(params.lines_to_fit, <<>>)
    IN  IF Len(eline_names) = 0 THEN [k \in 1..NLine |-> TRUE]
        ELSE NamedLines(eline_names)

\* new_mask[i][j]: output pixel j is within nsigma widths of line i
NewMask(outwave, ewave_obs, sigma_kms) ==
    LET eline_sigma_lambda ==
            [i \in DOMAIN ewave_obs |->
                RMul(RDiv(ewave_obs[i], R(ckms)), sigma_kms[i])]
    IN  [i \in DOMAIN ewave_obs |->
            [j \in DOMAIN outwave |->
                RLt(RAbs(RSub(outwave[j], ewave_obs[i])),
                    RMul(R(nsigma), eline_sigma_lambda[i]))]]

\* elines_index & new_mask.any(axis=1)
ElinesToFit(elines_index, new_mask) ==
    [i \in DOMAIN new_mask |-> elines_index[i] /\ AnyTrue(new_mask[i])]

\* a pixel mask taken over every line of the table, selected or not
ElineWavelengthMaskAllLines(to_fit, new_mask, npix) ==
    [j \in 1..npix |-> \E i \in DOMAIN new_mask : new_mask[i][j]]

\* new_mask[self._elines_to_fit, :].any(axis=0)
ElineWavelengthMask(to_fit, new_mask, npix) ==
    [j \in 1..npix |-> \E i \in DOMAIN new_mask : to_fit[i] /\ new_mask[i][j]]

\* cache_eline_parameters without its early return: the selection is made
\* whether or not a spectrum was observed
cache_eline_parameters_always(s, obs) ==
    LET ewave_obs == Scale(s._eline_wave, RAdd(R(1), s._zred))
        sigma_kms == [k \in DOMAIN ewave_obs |-> R(default_eline_sigma)]
        s1 == Put(Put(s, "_ewave_obs", ewave_obs), "_eline_sigma_kms", sigma_kms)
        new_mask == NewMask(s._outwave, ewave_obs, sigma_kms)
        to_fit == ElinesToFit(ElinesIndex(s.params), new_mask)
    IN  Put(Put(s1, "_elines_to_fit", Some(to_fit)),
            "_eline_wavelength_mask",
            [j \in DOMAIN s._outwave |->
                \E i \in DOMAIN new_mask : to_fit[i] /\ new_mask[i][j]])

cache_eline_parameters(s, obs) ==
    LET eline_z == Get(s.params.eline_delta_zred, R(0))
        ewave_obs == Scale(s._eline_wave, RAdd(RAdd(R(1), eline_z), s._zred))
        nline == Len(ewave_obs)
        sig == Get(s.params.eline_sigma, <<R(default_eline_sigma)>>)
        sigma_kms == [k \in 1..nline |-> IF Len(sig) = 1 THEN sig[1] ELSE sig[k]]
        s1 == Put(Put(s, "_ewave_obs", ewave_obs), "_eline_sigma_kms", sigma_kms)
    IN  IF obs.spectrum = None
        THEN Put(Put(s1, "_elines_to_fit", None), "_eline_wavelength_mask", <<>>)
        ELSE LET elines_index == ElinesIndex(s.params)
                 new_mask == NewMask(s._outwave, ewave_obs, sigma_kms)
                 to_fit == ElinesToFit(elines_index, new_mask)
                 wmask == ElineWavelengthMask(to_fit, new_mask, Len(s._outwave))
             IN  Put(Put(s1, "_elines_to_fit", Some(to_fit)),
                     "_eline_wavelength_mask", wmask)

\* prospect.utils.smoothing.smoothspec: one flux value per output wavelength
smoothspec(s, wave, spec) ==
    [k \in DOMAIN s._outwave |-> Interp(s._outwave[k], wave, spec)]

----------------------------------------------------------------------------
(* Small dense linear algebra on sequences of rows.                        *)

Dot(u, v) == SumSeq([k \in DOMAIN u |-> RMul(u[k], v[k])])

MatVec(M, v) == Array([i \in DOMAIN M |-> Dot(M[i], v)])

MatAdd(A, B) == [i \in DOMAIN A |-> [j \in DOMAIN A[i] |-> RAdd(A[i][j], B[i][j])]]

MatMul(A, B) ==
    Matrix([i \in DOMAIN A |->
               [j \in DOMAIN B[1] |->
                   SumSeq([k \in DOMAIN B |-> RMul(A[i][k], B[k][j])])]])

Diag(v) == [i \in DOMAIN v |-> [j \in DOMAIN v |-> IF i = j THEN v[i] ELSE R(0)]]

AllFinite(M) == \A i \in DOMAIN M : \A j \in DOMAIN M[i] : IsFinite(M[i][j])

Drop(v, k) == [j \in 1..(Len(v) - 1) |-> IF j < k THEN v[j] ELSE v[j + 1]]

Minor(M, r, c) == [i \in 1..(Len(M) - 1) |-> Drop(Drop(M, r)[i], c)]

RECURSIVE Det(_)
Det(M) ==
    IF Len(M) = 0 THEN R(1)
    ELSE IF Len(M) = 1 THEN M[1][1]
    ELSE SumSeq([j \in DOMAIN M |->
            RMul(IF j % 2 = 1 THEN M[1][j] ELSE RNeg(M[1][j]), Det(Minor(M, 1, j)))])

\* the inverse of a matrix with a non-zero determinant
Inverse(M) ==
    LET d == Det(M)
    IN  Matrix([i \in DOMAIN M |->
                   [j \in DOMAIN M |->
                       RDiv(IF (i + j) % 2 = 0 THEN Det(Minor(M, j, i))
                            ELSE RNeg(Det(Minor(M, j, i))), d)]])

\* np.linalg.inv
linalg_inv(M) ==
    IF AllFinite(M) /\ Det(M) = R(0) THEN Raised(<<>>, "LinAlgError")
    ELSE Returned(<<>>, Inverse(M))

\* np.linalg.pinv of a matrix of at most two rows: the inverse when there is
\* one, else the Moore-Penrose inverse of a matrix of rank zero or one
linalg_pinv(M) ==
    IF ~AllFinite(M) THEN Raised(<<>>, "LinAlgError")
    ELSE IF Len(M) = 0 THEN Returned(<<>>, M)
    ELSE IF Det(M) # R(0) THEN Returned(<<>>, Inverse(M))
    ELSE LET norm2 == SumSeq([i \in DOMAIN M |-> Dot(M[i], M[i])])
         IN  Returned(<<>>,
                [i \in DOMAIN M |->
                    [j \in DOMAIN M |->
                        IF norm2 = R(0) THEN R(0) ELSE RDiv(M[j][i], norm2)]])

\* np.trapz(y, x)
Trapz(y, x) ==
    SumSeq([k \in 1..(Len(y) - 1) |->
        RMul(RSub(x[k + 1], x[k]), RDiv(RAdd(y[k + 1], y[k]), R(2)))])

----------------------------------------------------------------------------
(* The emission line engine.                                               *)

\* np.exp(-q) underflows to zero from q = exp_underflow on; the model's
\* floats place that beyond the edge of the nsigma window (q = nsigma^2/2)
exp_underflow == 13

\* np.exp(-q), tabulated: halves every two units of q
ExpNeg(q) ==
    IF ~IsFinite(q) THEN (IF q = NaN THEN NaN ELSE R(0))
    ELSE IF ~RLt(q, R(exp_underflow)) THEN R(0)
    ELSE <<1, 2 ^ (RFloor(q) \div 2)>>

\* np.sqrt(np.pi * 2)
sqrt_2pi == <<5, 2>>

\* the unnormalised profile of one line at one wavelength
GaussianProfile(w, mu, sigma) ==
    LET dv == RMul(R(ckms), RSub(RDiv(w, mu), R(1)))
        dv_dnu == RDiv(RMul(R(ckms), RMul(w, w)), RMul(R(lightspeed), mu))
        g == RMul(RDiv(R(1), RMul(sigma, sqrt_2pi)),
                  ExpNeg(RDiv(RMul(dv, dv), RMul(R(2), RMul(sigma, sigma)))))
    IN  RMul(g, dv_dnu)

\* the divisor of a column: -np.trapz(eline_gaussians, 3e18/warr[:, None], axis=0)
TrapzDivisor(column, warr) ==
    RNeg(Trapz(column, [k \in DOMAIN warr |-> RDiv(R(nu_numerator), warr[k])]))

\* lineidx is a boolean index over the lines; wave is the wavelength array
\* (None: the cached _outwave).  The result has shape (n_wave, n_line).
get_eline_gaussians(s, lineidx, wave) ==
    LET warr == IF wave = None THEN s._outwave ELSE wave[1]
        mu == Select(s._ewave_obs, lineidx)
        sigma == Select(s._eline_sigma_kms, lineidx)
        column == [l \in DOMAIN mu |->
                      [k \in DOMAIN warr |-> GaussianProfile(warr[k], mu[l], sigma[l])]]
    IN  [k \in DOMAIN warr |->
            [l \in DOMAIN mu |->
                RDiv(column[l][k], TrapzDivisor(column[l], warr))]]

AllLines == [k \in 1..NLine |-> TRUE]

get_eline_spec(s, wave) ==
    LET gaussians == get_eline_gaussians(s, AllLines, wave)
        elums == Scale(s._eline_lum, RDiv(flux_norm(s), RAdd(R(1), s._zred)))
    IN  [k \in DOMAIN gaussians |->
            [l \in DOMAIN elums |-> RMul(elums[l], gaussians[k][l])]]

\* ln_mvn(x, mean, cov) = -0.5 * (ndim*log(2 pi) + log det cov + exp), kept
\* as the three numbers that determine it; cov is finite wherever get_el
\* calls it, so the pseudo-inverse is defined
ln_mvn(x, mean, cov) ==
    LET dev == [k \in DOMAIN x |-> RSub(x[k], mean[k])]
    IN  [ndim |-> Len(mean), det |-> Det(cov),
         exp |-> Dot(dev, MatVec(linalg_pinv(cov).out, dev))]

\* the position of line i among the lines that idx selects
Rank(idx, i) == Cardinality({j \in 1..i : idx[j]})

\* self._eline_lum[idx] = alpha_bar / linecal
\* the luminosity array rebuilt from the fit: zero at every line not fitted
WriteBack_rebuilt(eline_lum, idx, alpha_bar, linecal) ==
    [i \in DOMAIN eline_lum |->
        IF idx[i] THEN RDiv(alpha_bar[Rank(idx, i)], linecal[Rank(idx, i)])
        ELSE R(0)]

WriteBack(eline_lum, idx, alpha_bar, linecal) ==
    [i \in DOMAIN eline_lum |->
        IF idx[i] THEN RDiv(alpha_bar[Rank(idx, i)], linecal[Rank(idx, i)])
        ELSE eline_lum[i]]

\* the two assertions that open get_el: the exception they end with, or None
GetElPrecondition(params) ==
    IF params.nebemlineinspec = None THEN Some("KeyError")
    ELSE IF params.nebemlineinspec[1] # FALSE THEN Some("AssertionError")
    ELSE IF params.add_neb_emission = None THEN Some("KeyError")
    ELSE IF params.add_neb_emission[1] # TRUE THEN Some("AssertionError")
    ELSE None

\* the returned line spectrum built from the amplitudes written back
GetElFinish_map_spectrum(s, idx, eline_gaussians, linecal, alpha_hat, alpha_bar, K) ==
    Returned(Put(Put(s, "_ln_eline_penalty", K), "_eline_lum",
                 WriteBack(s._eline_lum, idx, alpha_bar, linecal)),
             [k \in DOMAIN eline_gaussians |->
                 [l \in DOMAIN alpha_bar |-> RMul(alpha_bar[l], eline_gaussians[k][l])]])

\* the line spectrum returned, the cached penalty and the luminosities
\* written back into self._eline_lum
GetElFinish(s, idx, eline_gaussians, linecal, alpha_hat, alpha_bar, K) ==
    Returned(Put(Put(s, "_ln_eline_penalty", K), "_eline_lum",
                 WriteBack(s._eline_lum, idx, alpha_bar, linecal)),
             [k \in DOMAIN eline_gaussians |->
                 [l \in DOMAIN alpha_hat |-> RMul(alpha_hat[l], eline_gaussians[k][l])]])

\* the MAP amplitudes under the Gaussian prior, M = pinv(sigma_alpha_hat +
\* sigma_alpha_breve)
GetElPosterior(s, idx, eline_gaussians, linecal, sigma_alpha_hat, alpha_hat,
               alpha_breve, sigma_alpha_breve, total, pinv_M) ==
    IF pinv_M.raised # None THEN Raised(s, pinv_M.raised[1])
    ELSE GetElFinish(s, idx, eline_gaussians, linecal, alpha_hat,
             Array([l \in DOMAIN alpha_hat |->
                 RAdd(MatVec(sigma_alpha_breve, MatVec(pinv_M.out, alpha_hat))[l],
                      MatVec(sigma_alpha_hat, MatVec(pinv_M.out, alpha_breve))[l])]),
             << [sign |-> 1, lnp |-> ln_mvn(alpha_hat, alpha_breve, total)],
                [sign |-> -1, lnp |-> ln_mvn(alpha_hat, alpha_hat, sigma_alpha_hat)] >>)

GetElPrior(s, idx, eline_gaussians, linecal, sigma_alpha_hat, alpha_hat,
           alpha_breve, sigma_alpha_breve, total) ==
    GetElPosterior(s, idx, eline_gaussians, linecal, sigma_alpha_hat, alpha_hat,
                   alpha_breve, sigma_alpha_breve, total, linalg_pinv(total))

\* sigma_alpha_breve = np.diag(eline_prior_width * np.abs(alpha_breve))**2
PriorCovariance(width, alpha_breve) ==
    Matrix(Diag([l \in DOMAIN alpha_breve |->
        RMul(RMul(width, RAbs(alpha_breve[l])), RMul(width, RAbs(alpha_breve[l])))]))

GetElPenalty(s, idx, eline_gaussians, linecal, sigma_alpha_hat, alpha_hat,
             alpha_breve, sigma_alpha_breve) ==
    GetElPrior(s, idx, eline_gaussians, linecal, sigma_alpha_hat, alpha_hat,
               alpha_breve, sigma_alpha_breve,
               MatAdd(sigma_alpha_hat, sigma_alpha_breve))

\* the branch on use_eline_prior
GetElMAP(s, idx, eline_gaussians, linecal, alpha_breve, sigma_alpha_hat, alpha_hat) ==
    IF Get(s.params.use_eline_prior, FALSE)
    THEN IF s.params.eline_prior_width = None THEN Raised(s, "KeyError")
         ELSE GetElPenalty(s, idx, eline_gaussians, linecal, sigma_alpha_hat,
                           alpha_hat, alpha_breve,
                           PriorCovariance(s.params.eline_prior_width[1], alpha_breve))
    ELSE GetElFinish(s, idx, eline_gaussians, linecal, alpha_hat, alpha_hat,
             << [sign |-> 1, lnp |-> ln_mvn(alpha_hat, alpha_hat, sigma_alpha_hat)] >>)

\* alpha_hat = sigma_alpha_hat . G^T . sigma_inv . delta
GetElML(s, idx, eline_gaussians, linecal, alpha_breve, GtSdelta, pinv_hat) ==
    IF pinv_hat.raised # None THEN Raised(s, pinv_hat.raised[1])
    ELSE GetElMAP(s, idx, eline_gaussians, linecal, alpha_breve, pinv_hat.out,
                  MatVec(pinv_hat.out, GtSdelta))

\* sigma_alpha_hat = pinv(G^T . sigma_inv . G)
GetElNormal(s, idx, eline_gaussians, linecal, alpha_breve, delta, GtS, Gcol) ==
    GetElML(s, idx, eline_gaussians, linecal, alpha_breve, MatVec(GtS, delta),
            linalg_pinv(Matrix([i \in DOMAIN GtS |->
                                   [j \in DOMAIN Gcol |-> Dot(GtS[i], Gcol[j])]])))

\* G^T . sigma_inv for sigma_inv = np.diag(1. / sigma_spec), and G^T
GetElWeights(s, idx, eline_gaussians, linecal, alpha_breve, delta, varsel, nfit) ==
    GetElNormal(s, idx, eline_gaussians, linecal, alpha_breve, delta,
        Matrix([l \in 1..nfit |->
                   [k \in DOMAIN varsel |->
                       RMul(eline_gaussians[k][l], RDiv(R(1), varsel[k]))]]),
        Matrix([l \in 1..nfit |->
                   [k \in DOMAIN varsel |-> eline_gaussians[k][l]]]))

\* linecal = units_factor * calib_factor
LineCal(s, ewsel, nebwave, calsel) ==
    Array([l \in DOMAIN ewsel |->
        RMul(RDiv(flux_norm(s), RAdd(R(1), s._zred)),
             Interp(ewsel[l], nebwave, calsel))])

\* alpha_breve = self._eline_lum[idx] * linecal
GetElUnits(s, idx, eline_gaussians, delta, varsel, lumsel, linecal) ==
    GetElWeights(s, idx, eline_gaussians, linecal,
                 Array([l \in DOMAIN linecal |-> RMul(lumsel[l], linecal[l])]),
                 delta, varsel, Len(linecal))

\* sigma_spec = obs["unc"]**2 when no covariance is passed
GetElVariance(obs, sigma_spec) ==
    IF sigma_spec = None
    THEN [k \in DOMAIN obs.unc[1] |-> RMul(obs.unc[1][k], obs.unc[1][k])]
    ELSE sigma_spec[1]

\* the observed spectrum itself taken for the residual
ResidualObserved(obsspec, model) == Array(obsspec)

\* delta = obs['spectrum'][emask] - calibrated_spec[emask]
Residual(obsspec, model) ==
    Array([k \in DOMAIN obsspec |-> RSub(obsspec[k], model[k])])

GetElData(s, idx, emask, nebwave, obsspec, model, variance) ==
    GetElUnits(s, idx,
        Matrix(get_eline_gaussians(s, idx, Some(nebwave))),
        Residual(obsspec, model),
        Select(variance, emask),
        Select(s._eline_lum, idx),
        LineCal(s, Select(s._ewave_obs, idx), nebwave, Select(s._speccal, emask)))

\* get_el after its assertions
GetElSolve(s, obs, calibrated_spec, sigma_spec) ==
    GetElData(s, s._elines_to_fit[1], s._eline_wavelength_mask,
              Select(s._outwave, s._eline_wavelength_mask),
              Select(obs.spectrum[1], s._eline_wavelength_mask),
              Select(calibrated_spec, s._eline_wavelength_mask),
              GetElVariance(obs, sigma_spec))

\* get_el with its assertions placed after the solve
get_el_assert_last(s, obs, calibrated_spec, sigma_spec) ==
    LET solved == GetElSolve(s, obs, calibrated_spec, sigma_spec)
    IN  IF GetElPrecondition(s.params) # None
        THEN Raised(solved.self, GetElPrecondition(s.params)[1])
        ELSE solved

get_el(s, obs, calibrated_spec, sigma_spec) ==
    IF GetElPrecondition(s.params) # None
    THEN Raised(s, GetElPrecondition(s.params)[1])
    ELSE GetElSolve(s, obs, calibrated_spec, sigma_spec)

----------------------------------------------------------------------------
(* Calibration strategies.                                                 *)

RMinOf(v) == CHOOSE a \in {v[k] : k \in DOMAIN v} : \A k \in DOMAIN v : ~RLt(v[k], a)

RMaxOf(v) == CHOOSE a \in {v[k] : k \in DOMAIN v} : \A k \in DOMAIN v : ~RLt(a, v[k])

\* x = wavelength - wavelength[mask].min(); 2.0 * (x / x[mask].max()) - 1.0
wave_to_x(wavelength, mask) ==
    LET lo == RMinOf(Select(wavelength, mask))
        x == [k \in DOMAIN wavelength |-> RSub(wavelength[k], lo)]
        hi == RMaxOf(Select(x, mask))
    IN  Array([k \in DOMAIN x |-> RSub(RMul(R(2), RDiv(x[k], hi)), R(1))])

RECURSIVE Cheb(_, _)
Cheb(n, x) ==
    IF n = 0 THEN R(1)
    ELSE IF n = 1 THEN x
    ELSE RSub(RMul(RMul(R(2), x), Cheb(n - 1, x)), Cheb(n - 2, x))

\* numpy.polynomial.chebyshev.chebvander
chebvander(x, order) ==
    Matrix([k \in DOMAIN x |-> [n \in 1..(order + 1) |-> Cheb(n - 1, x[k])]])

\* ATA += reg**2 * np.eye(order): numpy broadcasts a 1x1 identity over ATA
\* and refuses any other shape that differs from ATA's
AddRidge(ATA, reg, order) ==
    IF order = Len(ATA)
    THEN Returned(<<>>, MatAdd(ATA, Diag([k \in 1..order |-> RMul(reg, reg)])))
    ELSE IF order = 1
    THEN Returned(<<>>, [i \in DOMAIN ATA |->
                           [j \in DOMAIN ATA |-> RAdd(ATA[i][j], RMul(reg, reg))]])
    ELSE Raised(<<>>, "ValueError")

SpecModel_spec_calibration(s) ==
    Returned(s, [k \in DOMAIN s._outwave |-> R(1)])

\* the mask of the pixels the polynomial is fitted to
PolyFitMask(s, obs) ==
    LET mask == Get(obs.mask, [k \in DOMAIN obs.wavelength[1] |-> TRUE])
    IN  IF Get(s.params.marginalize_elines, FALSE)
        THEN [k \in DOMAIN mask |-> mask[k] /\ ~s._eline_wavelength_mask[k]]
        ELSE mask

\* mask = obs.get('mask', ...) without .copy(), then the write: the caller's mask is the array written
MaskForFitInPlace(s, obs) ==
    [obs  |-> IF obs.mask = None THEN obs
              ELSE [obs EXCEPT !.mask = Some(PolyFitMask(s, obs))],
     mask |-> PolyFitMask(s, obs)]

\* mask = obs.get('mask', np.ones_like(...)).copy(), then
\* mask[self._eline_wavelength_mask] = 0: the write goes to the copy.  The
\* observation as the caller holds it afterwards, and the mask of the fit.
MaskForFit(s, obs) == [obs |-> obs, mask |-> PolyFitMask(s, obs)]

\* poly = np.dot(Afull, c); self._poly_coeffs = c
ChebPoly(s, Afull, c) == Returned(Put(s, "_poly_coeffs", c), MatVec(Afull, c))

\* c = np.dot(ATAinv, np.dot(A.T, y / yvar))
ChebCoeffs(s, Afull, ATy, ATAinv) ==
    IF ATAinv.raised # None THEN Raised(s, ATAinv.raised[1])
    ELSE ChebPoly(s, Afull, MatVec(ATAinv.out, ATy))

\* ATAinv = np.linalg.inv(ATA)
ChebInvert(s, Afull, ATy, ridge) ==
    IF ridge.raised # None THEN Raised(s, ridge.raised[1])
    ELSE ChebCoeffs(s, Afull, ATy, linalg_inv(ridge.out))

\* if np.any(reg > 0): ATA += reg**2 * np.eye(order)
ChebRidge(s, order, Afull, ATA, ATy) ==
    ChebInvert(s, Afull, ATy,
        IF RGt(Get(s.params.poly_regularization, R(0)), R(0))
        THEN AddRidge(ATA, Get(s.params.poly_regularization, R(0)), order)
        ELSE Returned(<<>>, ATA))

\* ATA = np.dot(A.T, A / yvar[:, None])
ChebNormal(s, order, Afull, AT, Aw, yw) ==
    ChebRidge(s, order, Afull, MatMul(AT, Aw), MatVec(AT, yw))

\* the weighted least squares fit of the columns of A to y: the fitted
\* polynomial on the full grid, with the coefficients cached
ChebSolve(s, order, A, Afull, y, yvar) ==
    ChebNormal(s, order, Afull,
        Matrix([n \in DOMAIN A[1] |-> [k \in DOMAIN A |-> A[k][n]]]),
        Matrix([k \in DOMAIN A |-> [n \in DOMAIN A[k] |-> RDiv(A[k][n], yvar[k])]]),
        Array([k \in DOMAIN y |-> RDiv(y[k], yvar[k])]))

\* return (1.0 + poly)
PolySpecResult(fit) ==
    IF fit.raised # None THEN fit
    ELSE Returned(fit.self, [k \in DOMAIN fit.out |-> RAdd(R(1), fit.out[k])])

\* y = (obs['spectrum'] / spec)[mask] - 1.0; yerr = (obs['unc'] / spec)[mask]
PolySpecData(s, order, x, xmasked, ratio, yerr) ==
    PolySpecResult(ChebSolve(s, order, chebvander(xmasked, order), chebvander(x, order),
        Array([k \in DOMAIN ratio |-> RSub(ratio[k], R(1))]),
        Array([k \in DOMAIN yerr |-> RMul(yerr[k], yerr[k])])))

\* a / b element by element
Ratio(a, b) == Array([k \in DOMAIN b |-> RDiv(a[k], b[k])])

PolySpecFit(s, obs, spec, mask, x) ==
    PolySpecData(s, s.params.polyorder[1], x, Select(x, mask),
                 Select(Ratio(obs.spectrum[1], spec), mask),
                 Select(Ratio(obs.unc[1], spec), mask))

\* x = self.wave_to_x(obs["wavelength"], mask): min() of no pixel raises
PolySpecMasked(s, obs, spec, mask) ==
    IF ~AnyTrue(mask) THEN Raised(s, "ValueError")
    ELSE PolySpecFit(s, obs, spec, mask, wave_to_x(obs.wavelength[1], mask))

PolySpecModel_spec_calibration(s, obs, spec) ==
    IF Get(s.params.polyorder, 0) > 0 /\ obs.spectrum # None
    THEN PolySpecMasked(s, obs, spec, MaskForFit(s, obs).mask)
    ELSE Returned(s, [k \in DOMAIN s._outwave |-> R(1)])

\* the caller's observation once spec_calibration has run
ObsAfterCalibration(s, obs) ==
    IF s.cls = "PolySpecModel" /\ Get(s.params.polyorder, 0) > 0
                               /\ obs.spectrum # None
    THEN MaskForFit(s, obs).obs
    ELSE obs

\* the calibration strategy of the instance's class, as predict_spec calls it
spec_calibration(s, obs, spec) ==
    IF s.cls = "PolySpecModel" THEN PolySpecModel_spec_calibration(s, obs, spec)
    ELSE SpecModel_spec_calibration(s)

\* SedModel.spec_calibration: 1.0 * self.params.get('spec_norm', 1.0)
SedModel_spec_calibration(s) == Returned(s, Get(s.params.spec_norm, R(1)))

\* obs.get('mask', slice(None)): every pixel when the observation has no mask
SedFitMask(obs) == Get(obs.mask, [k \in DOMAIN obs.wavelength[1] |-> TRUE])

\* return (1.0 + poly) * norm
PolySedResult(fit, norm) ==
    IF fit.raised # None THEN fit
    ELSE Returned(fit.self,
             PyArray([k \in DOMAIN fit.out |-> RMul(RAdd(R(1), fit.out[k]), norm)]))

\* chebvander(x, order)[:, 1:]
WithoutFirstColumn(V) ==
    Matrix([k \in DOMAIN V |-> [n \in 1..(Len(V[k]) - 1) |-> V[k][n + 1]]])

\* y = (obs['spectrum'] / self._spec)[mask] / norm - 1.0
\* yerr = (obs['unc'] / self._spec)[mask] / norm
PolySedData(s, order, norm, x, xmasked, ratio, errratio) ==
    PolySedResult(
        ChebSolve(s, order, WithoutFirstColumn(chebvander(xmasked, order)),
            WithoutFirstColumn(chebvander(x, order)),
            Array([k \in DOMAIN ratio |-> RSub(RDiv(ratio[k], norm), R(1))]),
            Array([k \in DOMAIN errratio |->
                RMul(RDiv(errratio[k], norm), RDiv(errratio[k], norm))])),
        norm)

PolySedFit(s, obs, mask, x) ==
    PolySedData(s, s.params.polyorder[1], Get(s.params.spec_norm, R(1)),
                x, Select(x, mask),
                Select(Ratio(obs.spectrum[1], s._spec), mask),
                Select(Ratio(obs.unc[1], s._spec), mask))

PolySedMasked(s, obs, mask) ==
    IF ~AnyTrue(mask) THEN Raised(s, "ValueError")
    ELSE PolySedFit(s, obs, mask, wave_to_x(obs.wavelength[1], mask))

\* PolySedModel.spec_calibration: a float when no polynomial is fitted, else
\* norm * (1 + sum_{m=1..order} c_m T_m(x)) on the observed grid
PolySedModel_spec_calibration(s, obs) ==
    IF Get(s.params.polyorder, 0) > 0 /\ obs.spectrum # None
    THEN IF obs.wavelength = None THEN Raised(s, "TypeError")
         ELSE PolySedMasked(s, obs, SedFitMask(obs))
    ELSE Returned(s, PyFloat(RMul(R(1), Get(s.params.spec_norm, R(1)))))

\* np.exp, tabulated as ExpNeg is: doubles every two units of its argument
np_exp(q) ==
    IF ~IsFinite(q) THEN (IF q = NaN THEN NaN ELSE IF RLt(q, R(0)) THEN R(0) ELSE q)
    ELSE IF RLt(q, R(0)) THEN ExpNeg(RNeg(q))
    ELSE <<2 ^ (RFloor(q) \div 2), 1>>

\* numpy.polynomial.chebyshev.chebval(x, c) at one point
chebval(x, c) == SumSeq([n \in DOMAIN c |-> RMul(c[n], Cheb(n - 1, x))])

\* PolyFitModel.spec_calibration: the polynomial of the poly_coeffs parameter
\* on the observed grid, or the scalar spec_norm without that parameter
PolyFitModel_spec_calibration(s, obs) ==
    IF s.params.poly_coeffs = None
    THEN Returned(s, PyFloat(RMul(R(1), Get(s.params.spec_norm, R(1)))))
    ELSE IF obs.wavelength = None THEN Raised(s, "TypeError")
    ELSE
    LET mask == SedFitMask(obs)
    IN  IF ~AnyTrue(mask) THEN Raised(s, "ValueError")
        ELSE
        LET x == wave_to_x(obs.wavelength[1], mask)
            c == <<R(0)>> \o s.params.poly_coeffs[1]
            poly == [k \in DOMAIN x |-> chebval(x[k], c)]
        IN  IF Get(s.params.cal_type, "exp_poly") = "poly"
            THEN Returned(s, PyArray([k \in DOMAIN poly |->
                     RMul(RAdd(R(1), poly[k]), Get(s.params.spec_norm, R(1)))]))
            ELSE Returned(s, PyArray([k \in DOMAIN poly |->
                     np_exp(RAdd(Get(s.params.spec_norm, R(0)), poly[k]))]))

\* the calibration strategy of the instance's class, as SedModel.predict
\* calls it
sed_spec_calibration(s, obs) ==
    IF s.cls = "PolySedModel" THEN PolySedModel_spec_calibration(s, obs)
    ELSE IF s.cls = "PolyFitModel" THEN PolyFitModel_spec_calibration(s, obs)
    ELSE LET cal == SedModel_spec_calibration(s)
         IN  Returned(cal.self, PyFloat(cal.out))

\* s *= self._speccal, for a float or an array of the spectrum's shape
ApplyCalibration(spec, cal) ==
    IF cal.kind = "float" THEN Scale(spec, cal.val)
    ELSE [k \in DOMAIN spec |-> RMul(spec[k], cal.val[k])]

----------------------------------------------------------------------------
(* Photometry.                                                             *)

\* 3631*jansky_cgs
maggie_cgs == 1

\* sedpy.observate.getSED and 10**(-0.4*mags): the transmission-weighted
\* mean of the flux density in maggies, one value per filter
getSED_maggies(obs_wave, norm_spec, filters) ==
    [i \in DOMAIN filters |->
        LET filt == Filters[filters[i]]
            trans == [k \in DOMAIN obs_wave |->
                         InterpZero(obs_wave[k], filt.wavelength, filt.transmission)]
        IN  RDiv(Dot(trans, norm_spec), SumSeq(trans))]

\* the line fluxes weighted at the rest wavelengths of the lines
nebline_photometry_rest_wave(s, filters) ==
    LET elams == s._eline_wave
        elums == Scale(s._eline_lum,
                       RMul(RDiv(flux_norm(s), RAdd(R(1), s._zred)), R(maggie_cgs)))
    IN  [i \in DOMAIN filters |->
            LET filt == Filters[filters[i]]
                trans == [l \in DOMAIN elams |->
                             InterpZero(elams[l], filt.wavelength, filt.transmission)]
            IN  RDiv(SumSeq([l \in DOMAIN elams |->
                                RMul(RMul(trans[l], elams[l]), elums[l])]),
                     filt.ab_zero_counts)]

\* elums = self._eline_lum * self.flux_norm() / (1 + self._zred) * (3631*jansky_cgs)
nebline_photometry(s, filters) ==
    LET elams == s._ewave_obs
        elums == Scale(s._eline_lum,
                       RMul(RDiv(flux_norm(s), RAdd(R(1), s._zred)), R(maggie_cgs)))
    IN  [i \in DOMAIN filters |->
            LET filt == Filters[filters[i]]
                trans == [l \in DOMAIN elams |->
                             InterpZero(elams[l], filt.wavelength, filt.transmission)]
                idx == [l \in DOMAIN elams |-> RGt(trans[l], R(0))]
            IN  IF AnyTrue(idx)
                THEN RDiv(SumSeq([l \in DOMAIN Select(trans, idx) |->
                            RMul(RMul(Select(trans, idx)[l], Select(elams, idx)[l]),
                                 Select(elums, idx)[l])]),
                          filt.ab_zero_counts)
                ELSE R(0)]

\* the attributes predict_phot reads when filters are given
PhotReads(params) ==
    {"_wave", "_zred", "_norm_spec"} \cup
    (IF Get(params.nebemlineinspec, FALSE) = FALSE
     THEN {"_ewave_obs", "_eline_lum"} ELSE {})

\* predict_phot for a list of filters
FilterPhotometry(s, filters) ==
    IF ~(PhotReads(s.params) \subseteq s.has) THEN Raised(s, "AttributeError")
    ELSE
    LET obs_wave == observed_wave(s, s._wave, FALSE).out
        phot == getSED_maggies(obs_wave, s._norm_spec, filters)
    IN  IF Get(s.params.nebemlineinspec, FALSE) = FALSE
        THEN LET neb == nebline_photometry(s, filters)
             IN  Returned(s, PyArray([i \in DOMAIN phot |-> RAdd(phot[i], neb[i])]))
        ELSE Returned(s, PyArray(phot))

\* predict_phot giving an empty array, not 0.0, when there are no filters
predict_phot_empty_array(s, filters) ==
    IF filters = None THEN Returned(s, PyArray(<<>>))
    ELSE FilterPhotometry(s, filters[1])

predict_phot(s, filters) ==
    IF filters = None THEN Returned(s, PyFloat(R(0)))
    ELSE FilterPhotometry(s, filters[1])

----------------------------------------------------------------------------
(* SedModel.sed.                                                           *)

\* negative fluxes raised to zero
FloorFlux_at_zero(spec) ==
    [k \in DOMAIN spec |-> IF RLt(spec[k], R(0)) THEN R(0) ELSE spec[k]]

\* tiny = 1.0 / len(spec) * spec[spec > 0].min(); spec[spec < tiny] = tiny,
\* inside try/except: with no positive value min() raises and spec is kept
FloorFlux(spec) ==
    LET positive == Select(spec, [k \in DOMAIN spec |-> RGt(spec[k], R(0))])
    IN  IF positive = <<>> THEN spec
        ELSE LET tiny == RMul(RDiv(R(1), R(Len(spec))), RMinOf(positive))
             IN  [k \in DOMAIN spec |-> IF RLt(spec[k], tiny) THEN tiny ELSE spec[k]]

\* sps.get_spectrum(outwave=obs['wavelength'], filters=obs['filters'], ...)
sps_get_spectrum(sps, obs) ==
    [spec |-> IF obs.wavelength = None THEN sps.spec
              ELSE [k \in DOMAIN obs.wavelength[1] |->
                       Interp(obs.wavelength[1][k], sps.wave, sps.spec)],
     phot |-> IF obs.filters = None THEN PyFloat(R(0))
              ELSE PyArray([k \in DOMAIN obs.filters[1] |-> R(1)]),
     extras |-> sps.mfrac]

----------------------------------------------------------------------------
(* Calls.  `frame` holds the arguments and the local variables of the call *)
(* an instance is executing (or executed last), `pc` the statement it is   *)
(* at, `ret` what the call gave its caller.                                *)

NoValue == [kind |-> "none", val |-> <<>>]

NewFrame(entry, obs, sps, sigma_spec, extras) ==
    [entry |-> entry, obs |-> obs, sps |-> sps, sigma_spec |-> sigma_spec,
     extras |-> extras, obs_wave |-> <<>>, smooth_spec |-> <<>>,
     calibrated_spec |-> <<>>, mode |-> "unset", lum_after_lines |-> <<>>,
     spec |-> <<>>, phot |-> NoValue, x |-> R(0)]

NoObs == [wavelength |-> None, spectrum |-> None, unc |-> None,
          mask |-> None, filters |-> None]

NoSps == [wave |-> <<>>, spec |-> <<>>, mfrac |-> R(0), eline_lum |-> <<>>,
          raises |-> "never",
          elines |-> "copy"]

NoKwargs == [sigma_spec |-> None, sigma |-> None]

IdleFrame == NewFrame("none", NoObs, NoSps, None, NoKwargs)

Pending == [status |-> "pending", exc |-> "", spec |-> <<>>, phot |-> NoValue,
            extras |-> R(0)]

NoReturn == [Pending EXCEPT !.status = "none"]

SpecClasses == {"SpecModel", "PolySpecModel"}

\* predict(theta, obs, sps=sps, sigma_spec=sigma) as the caller writes it
PredictKwargs(sigma) == [sigma_spec |-> sigma, sigma |-> None]

\* mean_model wrappers that pass the covariance under the other class's keyword
MeanModelKwargsSwapped(cls, sigma) ==
    IF cls \in SpecClasses THEN [sigma_spec |-> None, sigma |-> sigma]
    ELSE [sigma_spec |-> sigma, sigma |-> None]

\* the keyword arguments with which mean_model calls self.predict
MeanModelKwargs(cls, sigma) ==
    IF cls \in SpecClasses THEN [sigma_spec |-> sigma, sigma |-> None]
    ELSE [sigma_spec |-> None, sigma |-> sigma]

\* SpecModel.predict names sigma_spec; SedModel.predict leaves it in **extras
BoundSigmaSpec(cls, kwargs) ==
    IF cls \in SpecClasses THEN kwargs.sigma_spec ELSE None

ExtraKwargs(cls, kwargs) ==
    IF cls \in SpecClasses THEN [kwargs EXCEPT !.sigma_spec = None] ELSE kwargs

\* predict with predict_phot called before predict_spec
StepAfterPhotFirst(cls, step) ==
    IF cls \in SpecClasses
    THEN CASE step = "call" -> "synthesis"
           [] step = "synthesis" -> "elines"
           [] step = "elines" -> "predict_phot"
           [] step = "predict_phot" -> "predict_spec"
           [] step = "predict_spec" -> "calibrate"
           [] step = "calibrate" -> "lines"
           [] OTHER -> "idle"
    ELSE CASE step = "call" -> "sed"
           [] step = "sed" -> "sed_calibrate"
           [] OTHER -> "idle"

\* the statement that follows `step` in predict
StepAfter(cls, step) ==
    IF cls \in SpecClasses
    THEN CASE step = "call" -> "synthesis"
           [] step = "synthesis" -> "elines"
           [] step = "elines" -> "predict_spec"
           [] step = "predict_spec" -> "calibrate"
           [] step = "calibrate" -> "lines"
           [] step = "lines" -> "predict_phot"
           [] OTHER -> "idle"
    ELSE CASE step = "call" -> "sed"
           [] step = "sed" -> "sed_calibrate"
           [] OTHER -> "idle"

Goto(i, step) == pc' = [pc EXCEPT ![i] = StepAfter(self[i].cls, step)]

\* an exception leaves predict: nothing is returned
Raise(i, exc) ==
    /\ pc' = [pc EXCEPT ![i] = "idle"]
    /\ ret' = [ret EXCEPT ![i] = [Pending EXCEPT !.status = "raised", !.exc = exc]]

\* set_parameters(theta) on entry to predict
EnterSelf(s, in) == [s EXCEPT !.params = in.params, !.fresh = {}]

\* the arguments as predict binds them
EnterFrame(cls, entry, in, kwargs) ==
    NewFrame(entry, in.obs, in.sps, BoundSigmaSpec(cls, kwargs),
             ExtraKwargs(cls, kwargs))

Enter(i, entry, in, kwargs) ==
    /\ pc[i] = "idle"
    /\ self' = [self EXCEPT ![i] = EnterSelf(self[i], in)]
    /\ frame' = [frame EXCEPT ![i] = EnterFrame(self[i].cls, entry, in, kwargs)]
    /\ ret' = [ret EXCEPT ![i] = Pending]
    /\ Goto(i, "call")

\* predict(theta, obs, sps=sps, sigma_spec=sigma): set_parameters(theta)
Predict(i, in) == Enter(i, "predict", in, PredictKwargs(in.sigma))

\* mean_model(theta, obs, sps, sigma)
MeanModel(i, in) == Enter(i, "mean_model", in, MeanModelKwargs(self[i].cls, in.sigma))

\* self._wave, self._spec, self._mfrac = sps.get_galaxy_spectrum(**self.params)
\* self._zred = self.params.get('zred', 0)
GalaxySpectrum(i) ==
    /\ pc[i] = "synthesis"
    /\ LET s == self[i]
           sps == frame[i].sps
       IN  IF sps.raises = "spectrum"
           THEN Raise(i, "SourceError") /\ UNCHANGED <<self, frame>>
           ELSE /\ self' = [self EXCEPT ![i] =
                       Put(Put(Put(Put(s, "_wave", sps.wave), "_spec", sps.spec),
                               "_mfrac", sps.mfrac),
                           "_zred", R(Get(s.params.zred, 0)))]
                /\ Goto(i, "synthesis")
                /\ UNCHANGED <<frame, ret>>

\* self._eline_wave, self._eline_lum = sps.get_galaxy_elines()
\* self._norm_spec = self._spec * self.flux_norm()
GalaxyElines(i) ==
    /\ pc[i] = "elines"
    /\ IF frame[i].sps.raises = "elines"
       THEN Raise(i, "SourceError") /\ UNCHANGED <<self, frame>>
       ELSE /\ \E s1 \in {Put(Put(self[i], "_eline_wave", LineRestWave),
                                "_eline_lum", frame[i].sps.eline_lum)} :
                  self' = [self EXCEPT ![i] =
                      Put(s1, "_norm_spec", Scale(s1._spec, flux_norm(s1)))]
            /\ Goto(i, "elines")
            /\ UNCHANGED <<frame, ret>>

\* predict_spec up to cache_eline_parameters
PredictSpecCache(i) ==
    /\ pc[i] = "predict_spec"
    /\ \E obs_wave \in {observed_wave(self[i], self[i]._wave, FALSE).out} :
       \E outwave \in {IF frame[i].obs.wavelength = None THEN obs_wave
                        ELSE frame[i].obs.wavelength[1]} :
           /\ self' = [self EXCEPT ![i] =
                  cache_eline_parameters(Put(self[i], "_outwave", outwave),
                                         frame[i].obs)]
           /\ frame' = [frame EXCEPT ![i].obs_wave = obs_wave]
    /\ Goto(i, "predict_spec")
    /\ UNCHANGED ret

\* smooth_spec = self.smoothspec(obs_wave, self._norm_spec)
\* self._speccal = self.spec_calibration(obs=obs, spec=smooth_spec, **extras)
\* calibrated_spec = smooth_spec * self._speccal
PredictSpecCalibrate(i) ==
    /\ pc[i] = "calibrate"
    /\ \E smooth_spec \in {smoothspec(self[i], frame[i].obs_wave, self[i]._norm_spec)} :
       \E cal \in {spec_calibration(self[i], frame[i].obs, smooth_spec)} :
       \E obs \in {ObsAfterCalibration(self[i], frame[i].obs)} :
           IF cal.raised # None
           THEN /\ Raise(i, cal.raised[1])
                /\ frame' = [frame EXCEPT ![i].obs = obs]
                /\ UNCHANGED self
           ELSE /\ self' = [self EXCEPT ![i] = Put(cal.self, "_speccal", cal.out)]
                /\ frame' = [frame EXCEPT ![i].obs = obs,
                                          ![i].smooth_spec = smooth_spec,
                                          ![i].calibrated_spec =
                                    [k \in DOMAIN smooth_spec |->
                                        RMul(smooth_spec[k], cal.out[k])]]
                /\ Goto(i, "calibrate")
                /\ UNCHANGED ret

\* the branch choice with predict_phot's default for nebemlineinspec (False)
ElineModeDefaultFalse(s) ==
    LET emask == s._eline_wavelength_mask
    IN  IF Get(s.params.marginalize_elines, FALSE) /\ AnyTrue(emask)
        THEN "marginalize"
        ELSE IF (Get(s.params.nebemlineinspec, FALSE) = FALSE) /\ AnyTrue(emask)
        THEN "inject"
        ELSE "none"

\* which of the three emission line branches of predict_spec is taken
ElineMode(s) ==
    LET emask == s._eline_wavelength_mask
    IN  IF Get(s.params.marginalize_elines, FALSE) /\ AnyTrue(emask)
        THEN "marginalize"
        ELSE IF (Get(s.params.nebemlineinspec, TRUE) = FALSE) /\ AnyTrue(emask)
        THEN "inject"
        ELSE "none"

\* calibrated_spec[emask] += self._elinespec.sum(axis=1)
AddLines(calibrated_spec, emask, elinespec) ==
    [k \in DOMAIN calibrated_spec |->
        IF k \in DOMAIN emask /\ emask[k]
        THEN RAdd(calibrated_spec[k], SumSeq(elinespec[Rank(emask, k)]))
        ELSE calibrated_spec[k]]

\* self._sed = calibrated_spec / self._speccal; return calibrated_spec
\* instance k holds, as its _eline_lum, the array object instance i holds:
\* each took it in its running call from a source that hands out its own
\* array (sps.get_galaxy_elines() is assigned without a copy)
SameLineArray(i, k) ==
    /\ k # i
    /\ frame[i].sps.elines = "own" /\ "_eline_lum" \in self[i].fresh
    /\ frame[k].sps.elines = "own" /\ "_eline_lum" \in self[k].fresh

\* the end of predict_spec with _sed taken before the line flux is added
FinishSpec_sed_before_lines(i, s, mode, calibrated_spec) ==
    /\ self' = [k \in DOMAIN self |->
            IF k = i
            THEN Put(s, "_sed", [j \in DOMAIN calibrated_spec |->
                                   RDiv(frame[i].calibrated_spec[j], s._speccal[j])])
            ELSE IF SameLineArray(i, k)
            THEN [self[k] EXCEPT !._eline_lum = s._eline_lum]
            ELSE self[k]]
    /\ frame' = [k \in DOMAIN frame |->
            [(IF k = i
              THEN [frame[k] EXCEPT !.mode = mode, !.spec = calibrated_spec,
                                    !.lum_after_lines = s._eline_lum]
              ELSE frame[k])
             EXCEPT !.sps.eline_lum =
                 IF frame[i].sps.elines = "own" /\ frame[k].sps.elines = "own"
                 THEN s._eline_lum ELSE @]]
    /\ Goto(i, "lines")
    /\ UNCHANGED ret

\* the end of predict_spec.  self._eline_lum[idx] = ... in get_el is a write
\* in place: it shows in the source's array and in every holder of it
FinishSpec(i, s, mode, calibrated_spec) ==
    /\ self' = [k \in DOMAIN self |->
            IF k = i
            THEN Put(s, "_sed", [j \in DOMAIN calibrated_spec |->
                                   RDiv(calibrated_spec[j], s._speccal[j])])
            ELSE IF SameLineArray(i, k)
            THEN [self[k] EXCEPT !._eline_lum = s._eline_lum]
            ELSE self[k]]
    /\ frame' = [k \in DOMAIN frame |->
            [(IF k = i
              THEN [frame[k] EXCEPT !.mode = mode, !.spec = calibrated_spec,
                                    !.lum_after_lines = s._eline_lum]
              ELSE frame[k])
             EXCEPT !.sps.eline_lum =
                 IF frame[i].sps.elines = "own" /\ frame[k].sps.elines = "own"
                 THEN s._eline_lum ELSE @]]
    /\ Goto(i, "lines")
    /\ UNCHANGED ret

\* the marginalisation branch of predict_spec
GetEl(i) ==
    /\ pc[i] = "lines"
    /\ ElineMode(self[i]) = "marginalize"
    /\ \E el \in {get_el(self[i], frame[i].obs, frame[i].calibrated_spec,
                          frame[i].sigma_spec)} :
           IF el.raised # None
           THEN /\ Raise(i, el.raised[1])
                /\ self' = [self EXCEPT ![i] = el.self]
                /\ frame' = [frame EXCEPT ![i].mode = "marginalize"]
           ELSE \E s1 \in {Put(el.self, "_elinespec", el.out)} :
                \E spec \in {AddLines(frame[i].calibrated_spec,
                                      s1._eline_wavelength_mask, el.out)} :
                    FinishSpec(i, s1, "marginalize", spec)

\* the explicit injection branch of predict_spec
GetElineSpec(i) ==
    /\ pc[i] = "lines"
    /\ ElineMode(self[i]) = "inject"
    /\ \E emask \in {self[i]._eline_wavelength_mask} :
       \E elinespec \in {get_eline_spec(self[i], Some(Select(self[i]._outwave, emask)))} :
       \E spec \in {AddLines(frame[i].calibrated_spec, emask, elinespec)} :
           FinishSpec(i, Put(self[i], "_elinespec", elinespec), "inject", spec)

\* neither branch
NoLines(i) ==
    /\ pc[i] = "lines"
    /\ ElineMode(self[i]) = "none"
    /\ FinishSpec(i, self[i], "none", frame[i].calibrated_spec)

\* phot = self.predict_phot(obs['filters']); return spec, phot, self._mfrac
PredictPhot(i) ==
    /\ pc[i] = "predict_phot"
    /\ \E phot \in {predict_phot(self[i], frame[i].obs.filters)} :
           IF phot.raised # None
           THEN Raise(i, phot.raised[1]) /\ UNCHANGED <<self, frame>>
           ELSE /\ ret' = [ret EXCEPT ![i] =
                       [status |-> "returned", exc |-> "", spec |-> frame[i].spec,
                        phot |-> phot.out, extras |-> self[i]._mfrac]]
                /\ frame' = [frame EXCEPT ![i].phot = phot.out]
                /\ Goto(i, "predict_phot")
                /\ UNCHANGED self

\* obs.get('normalization_guess', 1.0)
NormalizationGuess(obs) ==
    IF "normalization_guess" \in DOMAIN obs THEN obs.normalization_guess ELSE R(1)

\* sed with the source's error swallowed by the try/except around the floor
SedSwallow(i) ==
    /\ pc[i] = "sed"
    /\ \E got \in {sps_get_spectrum(frame[i].sps, frame[i].obs)} :
       \E spec \in {FloorFlux(Scale(got.spec, NormalizationGuess(frame[i].obs)))} :
           /\ self' = [self EXCEPT ![i] = Put(self[i], "_spec", spec)]
           /\ frame' = [frame EXCEPT ![i].spec = spec, ![i].phot = got.phot,
                                     ![i].x = got.extras]
           /\ Goto(i, "sed")
           /\ UNCHANGED ret

\* SedModel.sed
Sed(i) ==
    /\ pc[i] = "sed"
    /\ IF frame[i].sps.raises = "spectrum"
       THEN Raise(i, "SourceError") /\ UNCHANGED <<self, frame>>
       ELSE \E got \in {sps_get_spectrum(frame[i].sps, frame[i].obs)} :
            \E spec \in {FloorFlux(Scale(got.spec, NormalizationGuess(frame[i].obs)))} :
                /\ self' = [self EXCEPT ![i] = Put(self[i], "_spec", spec)]
                /\ frame' = [frame EXCEPT ![i].spec = spec, ![i].phot = got.phot,
                                          ![i].x = got.extras]
                /\ Goto(i, "sed")
                /\ UNCHANGED ret

\* SedModel.predict after sed: the calibration is applied to the spectrum
SedCalibrate(i) ==
    /\ pc[i] = "sed_calibrate"
    /\ \E cal \in {sed_spec_calibration(self[i], frame[i].obs)} :
           IF cal.raised # None
           THEN /\ Raise(i, cal.raised[1])
                /\ self' = [self EXCEPT ![i] = cal.self]
                /\ UNCHANGED frame
           ELSE \E spec \in {ApplyCalibration(frame[i].spec, cal.out)} :
                /\ self' = [self EXCEPT ![i] = Put(cal.self, "_speccal", cal.out)]
                /\ frame' = [frame EXCEPT ![i].spec = spec]
                /\ ret' = [ret EXCEPT ![i] =
                       [status |-> "returned", exc |-> "", spec |-> spec,
                        phot |-> frame[i].phot, extras |-> frame[i].x]]
                /\ Goto(i, "sed_calibrate")

\* predict_phot(filters) called on its own
PredictPhotCall(i, filters) ==
    /\ pc[i] = "idle"
    /\ self[i].cls \in SpecClasses
    /\ \E phot \in {predict_phot(self[i], filters)} :
           /\ self' = [self EXCEPT ![i] = phot.self]
           /\ frame' = [frame EXCEPT ![i] =
                  [IdleFrame EXCEPT !.entry = "predict_phot",
                                    !.obs = [NoObs EXCEPT !.filters = filters],
                                    !.phot = phot.out]]
           /\ ret' = [ret EXCEPT ![i] =
                  IF phot.raised # None
                  THEN [Pending EXCEPT !.status = "raised", !.exc = phot.raised[1]]
                  ELSE [Pending EXCEPT !.status = "returned", !.phot = phot.out]]
    /\ UNCHANGED pc

\* one statement of a call in progress, on any instance
Step ==
    \/ \E i \in DOMAIN self : GalaxySpectrum(i)
    \/ \E i \in DOMAIN self : GalaxyElines(i)
    \/ \E i \in DOMAIN self : PredictSpecCache(i)
    \/ \E i \in DOMAIN self : PredictSpecCalibrate(i)
    \/ \E i \in DOMAIN self : GetEl(i)
    \/ \E i \in DOMAIN self : GetElineSpec(i)
    \/ \E i \in DOMAIN self : NoLines(i)
    \/ \E i \in DOMAIN self : PredictPhot(i)
    \/ \E i \in DOMAIN self : Sed(i)
    \/ \E i \in DOMAIN self : SedCalibrate(i)

----------------------------------------------------------------------------
(* Specifications.                                                         *)

\* what a caller passes to predict: parameters, observation, source, noise
InputsOf(params, observations, sources) ==
    UNION { { [params |-> p, obs |-> o, sps |-> y, sigma |-> g] :
                p \in params, y \in sources, g \in SigmaSpecs(o) } :
            o \in observations }

Inputs(cls) == InputsOf(ParamSets(cls), ObsSet, SpsSet)

FilterArgs == {None, Some(<<1>>)}

Init ==
    /\ \E cls \in Classes : self = [i \in {1} |-> NewModel(cls)]
    /\ pc = [i \in DOMAIN self |-> "idle"]
    /\ frame = [i \in DOMAIN self |-> IdleFrame]
    /\ ret = [i \in DOMAIN self |-> NoReturn]

\* one predict on a new instance; predict_phot on its own at any time
Next ==
    \/ \E i \in DOMAIN self :
           ret[i].status = "none" /\ \E in \in Inputs(self[i].cls) : Predict(i, in)
    \/ \E i \in DOMAIN self : \E f \in FilterArgs : PredictPhotCall(i, f)
    \/ Step

Spec == Init /\ [][Next]_vars

\* a run of predict calls on one instance
SeqParams(cls) ==
    { p \in ParamSets(cls) :
        /\ p.lines_to_fit = None
        /\ p.add_neb_emission = Some(TRUE)
        /\ <<p.marginalize_elines, p.nebemlineinspec>> \in
               { <<Some(TRUE), Some(FALSE)>>, <<None, Some(FALSE)>>,
                 <<None, Some(TRUE)>> } }

SeqObs == { o \in ObsSet : o.wavelength = Some(GridA) }

SeqSps == { y \in SpsSet : y.raises = "never" }

SeqInputs(cls) ==
    { in \in InputsOf(SeqParams(cls), SeqObs, SeqSps) : in.sigma = None }

NextSeq ==
    \/ \E i \in DOMAIN self :
           pc[i] = "idle" /\ \E in \in SeqInputs(self[i].cls) : Predict(i, in)
    \/ Step

SpecSeq == Init /\ [][NextSeq]_vars

\* calls that fit line amplitudes, with and without a prior on them
PriorParams ==
    { [NoParams EXCEPT !.zred = Some(z), !.nebemlineinspec = Some(neb),
                       !.add_neb_emission = Some(TRUE),
                       !.marginalize_elines = marg, !.use_eline_prior = prior,
                       !.eline_prior_width = width, !.lines_to_fit = ltf,
                       !.elines_to_fit = Some(info_name)] :
        z \in 0..MaxZred, neb \in BOOLEAN, marg \in {None, Some(TRUE)},
        prior \in Flag3, width \in {None, Some(R(1)), Some(<<1, 2>>)},
        ltf \in {None, Some(<<PyStr("Ha")>>)} }

PriorSps == SeqSps \cup { [y EXCEPT !.eline_lum = <<R(3), R(0)>>] : y \in SeqSps }

PriorInputs == InputsOf(PriorParams, ObsSet, PriorSps)

NextPrior ==
    \/ \E i \in DOMAIN self :
           ret[i].status = "none" /\ \E in \in PriorInputs : Predict(i, in)
    \/ Step

SpecPrior == Init /\ [][NextPrior]_vars

\* two instances of one class given the same call, one through predict and
\* one through mean_model
PairInputs(cls) ==
    InputsOf({ p \in ParamSets(cls) : p.lines_to_fit = None /\ p.polyorder = None },
             ObsSet, SpsSet)

InitPair ==
    /\ \E cls \in Classes : self = [i \in {1, 2} |-> NewModel(cls)]
    /\ pc = [i \in DOMAIN self |-> "idle"]
    /\ frame = [i \in DOMAIN self |-> IdleFrame]
    /\ ret = [i \in DOMAIN self |-> NoReturn]

\* the input of the call that instance i is executing, or executed last
CallInput(i) ==
    [params |-> self[i].params, obs |-> frame[i].obs, sps |-> frame[i].sps,
     sigma |-> IF self[i].cls \in SpecClasses THEN frame[i].sigma_spec
               ELSE frame[i].extras.sigma_spec]

NextPair ==
    \/ /\ ret[1].status = "none"
       /\ \E in \in PairInputs(self[1].cls) : Predict(1, in)
    \/ /\ ret[1].status # "none"
       /\ ret[2].status = "none"
       /\ MeanModel(2, CallInput(1))
    \/ Step

SpecPair == InitPair /\ [][NextPair]_vars

\* two instances of one class given the same parameters, source and output
\* wavelength grid: the first with the observed spectrum, the second with an
\* observation that has none
DataParams ==
    { [NoParams EXCEPT !.zred = Some(z), !.nebemlineinspec = neb,
                       !.add_neb_emission = Some(TRUE),
                       !.marginalize_elines = marg] :
        z \in 0..MaxZred, neb \in Flag3, marg \in Flag3 }

DataObs == { o \in ObsSet : o.spectrum # None }

DataInputs == { in \in InputsOf(DataParams, DataObs, SeqSps) : in.sigma = None }

WithoutSpectrum(in) == [in EXCEPT !.obs.spectrum = None, !.obs.unc = None]

\* predict(theta, obs, sps) on instance 1 and predict(theta, obs without
\* its spectrum, sps) on instance 2
PredictBoth(in) ==
    /\ \A k \in DOMAIN self : pc[k] = "idle" /\ ret[k].status = "none"
    /\ self' = [k \in DOMAIN self |-> EnterSelf(self[k], in)]
    /\ frame' = [k \in DOMAIN frame |->
           EnterFrame(self[k].cls, "predict",
                      IF k = 1 THEN in ELSE WithoutSpectrum(in),
                      PredictKwargs(in.sigma))]
    /\ ret' = [k \in DOMAIN ret |-> Pending]
    /\ pc' = [k \in DOMAIN pc |-> StepAfter(self[k].cls, "call")]

NextData ==
    \/ \E in \in DataInputs : PredictBoth(in)
    \/ Step

SpecData == InitPair /\ [][NextData]_vars

\* one predict on a new instance over the calibration parameters: polynomial
\* orders, ridge, normalisation, fixed coefficients, masked observations
(***************************************************************************)
(* Two instances given the same synthesis source, their calls interleaved. *)
(* What get_galaxy_elines() hands out is the source's business: a new      *)
(* array at each call ("copy") or the array the source keeps ("own").      *)
(***************************************************************************)
SharedSps == { [y EXCEPT !.elines = e] : y \in SeqSps, e \in {"copy", "own"} }

SharedParams(cls) ==
    { p \in ParamSets(cls) :
        /\ p.zred = Some(0) /\ p.lines_to_fit = None /\ p.polyorder = None
        /\ p.add_neb_emission = Some(TRUE)
        /\ p.nebemlineinspec # None
        /\ p.marginalize_elines # Some(FALSE) }

SharedObs == { o \in ObsSet : o.spectrum # None /\ o.filters # None }

SharedInputs(cls) == InputsOf(SharedParams(cls), SharedObs, SharedSps)

\* the source object as it is when the call starts: the array it keeps is
\* the one earlier calls were handed
SourceNow(sps) ==
    IF sps.elines = "own" /\ \E k \in DOMAIN frame : frame[k].sps.elines = "own"
    THEN frame[CHOOSE k \in DOMAIN frame : frame[k].sps.elines = "own"].sps
    ELSE sps

NextShared ==
    \/ \E i \in DOMAIN self :
           /\ ret[i].status = "none"
           /\ \E in \in SharedInputs(self[i].cls) :
                  Predict(i, [in EXCEPT !.sps = SourceNow(in.sps)])
    \/ Step

SpecShared == InitPair /\ [][NextShared]_vars

(***************************************************************************)
(* predict calls over the parameters flux_norm reads: mass (a scalar or a  *)
(* vector of components), lumdist and zred.                                *)
(***************************************************************************)
FluxParams ==
    { [NoParams EXCEPT !.zred = Some(z), !.mass = mass, !.lumdist = lumdist,
                       !.nebemlineinspec = Some(neb),
                       !.marginalize_elines = marg] :
        z \in 0..MaxZred,
        mass \in {None, Some(<<R(1)>>), Some(<<R(3)>>), Some(<<R(1), R(2)>>)},
        lumdist \in {None, Some(R(default_lumdist)), Some(R(2)), Some(R(5))},
        neb \in BOOLEAN, marg \in {None, Some(TRUE)} }

FluxInputs == { in \in InputsOf(FluxParams, SharedObs, SeqSps) : in.sigma = None }

NextFlux ==
    \/ \E i \in DOMAIN self :
           ret[i].status = "none" /\ \E in \in FluxInputs : Predict(i, in)
    \/ Step

SpecFlux == Init /\ [][NextFlux]_vars

(***************************************************************************)
(* observed_wave called by the user on an instance that predict has left   *)
(* with a redshift, over source grids and redshifts of either sign.        *)
(***************************************************************************)
MaxBlueshift == 2

WaveSps == SeqSps \cup { [y EXCEPT !.wave = <<R(2), R(3), R(7)>>] : y \in SeqSps }

WaveParams ==
    { [NoParams EXCEPT !.zred = z, !.nebemlineinspec = Some(neb),
                       !.marginalize_elines = marg] :
        z \in {None} \cup { Some(n) : n \in (-MaxBlueshift)..MaxZred },
        neb \in BOOLEAN, marg \in {None, Some(TRUE)} }

WaveObs == { o \in ObsSet : o.filters # None /\ o.mask = None }

WaveInputs == { in \in InputsOf(WaveParams, WaveObs, WaveSps) : in.sigma = None }

\* model.observed_wave(model._wave, do_wavecal=do_wavecal)
ObservedWave(i, do_wavecal) ==
    /\ pc[i] = "idle"
    /\ ret[i].status # "none"
    /\ {"_wave", "_zred"} \subseteq self[i].has
    /\ \E r \in {observed_wave(self[i], self[i]._wave, do_wavecal)} :
           /\ frame' = [frame EXCEPT ![i] =
                  [IdleFrame EXCEPT !.entry = IF do_wavecal THEN "observed_wave_wavecal"
                                              ELSE "observed_wave"]]
           /\ ret' = [ret EXCEPT ![i] =
                  IF r.raised # None
                  THEN [Pending EXCEPT !.status = "raised", !.exc = r.raised[1]]
                  ELSE [Pending EXCEPT !.status = "returned", !.spec = r.out]]
    /\ UNCHANGED <<self, pc>>

NextWave ==
    \/ \E i \in DOMAIN self :
           ret[i].status = "none" /\ \E in \in WaveInputs : Predict(i, in)
    \/ \E i \in DOMAIN self : \E do_wavecal \in BOOLEAN : ObservedWave(i, do_wavecal)
    \/ Step

SpecWave == Init /\ [][NextWave]_vars

\* synthesis spectra with negative and zero fluxes, and observations that
\* carry a normalization guess
SedSps ==
    { [y EXCEPT !.spec = f] :
        y \in SeqSps,
        f \in { <<R(4), R(4), R(4)>>, <<R(-1), R(0), R(2)>>, <<R(6), R(1), R(0)>>,
                <<R(-1), R(0), R(-3)>>, <<R(0), R(0), R(0)>> } }

SedObs ==
    WaveObs \cup
    { [wavelength |-> w, spectrum |-> None, unc |-> None, mask |-> None,
       filters |-> Some(<<1>>), normalization_guess |-> g] :
        w \in {None, Some(GridA)}, g \in {R(2), R(-1)} }

SedInputs == { in \in InputsOf(WaveParams, SedObs, SedSps) : in.sigma = None }

NextSed ==
    \/ \E i \in DOMAIN self :
           ret[i].status = "none" /\ \E in \in SedInputs : Predict(i, in)
    \/ Step

SpecSed == Init /\ [][NextSed]_vars

(***************************************************************************)
(* templates.py: the Directory the template library is kept in.  `self`    *)
(* holds the Directory, `frame` the values its caller has retrieved.  A    *)
(* Python reference is the value together with whether it is the stored    *)
(* object or a separate one.                                               *)
(***************************************************************************)
MaxHeld == 2

imf == [N |-> 1, isfree |-> FALSE, init |-> 2]

dust_type == [N |-> 1, isfree |-> FALSE, init |-> 0]

sfh == [N |-> 1, isfree |-> FALSE, init |-> 0]

Templates ==
    [type_defaults |-> [imf_type |-> imf, dust_type |-> dust_type],
     ssp |-> [sfh |-> sfh, imf_type |-> imf, dust_type |-> dust_type]]

Descriptions ==
    [type_defaults |-> "Explicitly sets dust amd IMF types.",
     ssp |-> "Basic set of (free) parameters for a delta function SFH"]

\* Directory.__init__
NewDirectory == [cls |-> "Directory", _entries |-> <<>>, _descriptions |-> <<>>]

\* d[k] = v for a dict d
SetKey(d, k, v) == [j \in DOMAIN d \cup {k} |-> IF j = k THEN v ELSE d[j]]

\* the entry itself handed out, not a copy
same_object(obj) == [value |-> obj, stored |-> TRUE]

\* copy.deepcopy(obj): an equal value that shares no object with obj
deepcopy(obj) == [value |-> obj, stored |-> FALSE]

\* Directory.__getitem__
Directory_getitem(d, k) ==
    IF k \in DOMAIN d._entries THEN Returned(d, deepcopy(d._entries[k]))
    ELSE Raised(d, "KeyError")

\* Directory.__setitem__
Directory_setitem(d, k, v) ==
    [d EXCEPT !._entries = SetKey(d._entries, k, v[1]),
              !._descriptions = SetKey(d._descriptions, k, v[2])]

\* what a caller may do to a parameter set it holds: v[p]["init"] = 5 or
\* v.pop(p)
Mutations(v) ==
    { [v EXCEPT ![p].init = 5] : p \in DOMAIN v } \cup
    { [q \in DOMAIN v \ {p} |-> v[q]] : p \in DOMAIN v }

InitDir ==
    /\ self = [i \in {1} |-> NewDirectory]
    /\ pc = [i \in {1} |-> "idle"]
    /\ frame = [i \in {1} |-> [held |-> <<>>]]
    /\ ret = [i \in {1} |-> NoReturn]

\* TemplateLibrary[k] = (entry, description), once for each name
SetItem(k) ==
    /\ k \notin DOMAIN self[1]._entries
    /\ self' = [self EXCEPT ![1] =
           Directory_setitem(self[1], k, <<Templates[k], Descriptions[k]>>)]
    /\ UNCHANGED <<pc, frame, ret>>

\* v = TemplateLibrary[k]
GetItem(k) ==
    /\ Len(frame[1].held) < MaxHeld
    /\ \E r \in {Directory_getitem(self[1], k)} :
           IF r.raised # None
           THEN /\ ret' = [ret EXCEPT ![1] =
                       [Pending EXCEPT !.status = "raised", !.exc = r.raised[1]]]
                /\ UNCHANGED frame
           ELSE /\ ret' = [ret EXCEPT ![1] = [Pending EXCEPT !.status = "returned"]]
                /\ frame' = [frame EXCEPT ![1].held = Append(@,
                       [key |-> k, value |-> r.out.value, stored |-> r.out.stored,
                        mutated |-> FALSE,
                        later |-> \E h \in DOMAIN frame[1].held :
                                     /\ frame[1].held[h].key = k
                                     /\ frame[1].held[h].mutated])]
    /\ UNCHANGED <<self, pc>>

\* the caller changes a value it retrieved; a write to the stored object
\* shows in the Directory and in every other reference to it
Mutate(h) ==
    /\ h \in DOMAIN frame[1].held
    /\ \E v \in Mutations(frame[1].held[h].value) :
           /\ frame' = [frame EXCEPT ![1].held =
                  [g \in DOMAIN @ |->
                      IF g = h THEN [@[g] EXCEPT !.value = v, !.mutated = TRUE]
                      ELSE IF @[h].stored /\ @[g].stored /\ @[g].key = @[h].key
                      THEN [@[g] EXCEPT !.value = v]
                      ELSE @[g]]]
           /\ self' = IF frame[1].held[h].stored
                      THEN [self EXCEPT ![1]._entries =
                               SetKey(@, frame[1].held[h].key, v)]
                      ELSE self
    /\ UNCHANGED <<pc, ret>>

NextDir ==
    \/ \E k \in DOMAIN Templates : SetItem(k)
    \/ \E k \in DOMAIN Templates : GetItem(k)
    \/ \E h \in 1..MaxHeld : Mutate(h)

SpecDir == InitDir /\ [][NextDir]_vars

GridC == <<R(2), R(10), R(14), R(18)>>

AllCalParams ==
    { [NoParams EXCEPT !.zred = Some(0), !.nebemlineinspec = Some(FALSE),
                       !.add_neb_emission = Some(TRUE),
                       !.marginalize_elines = marg, !.polyorder = order,
                       !.poly_regularization = reg, !.spec_norm = norm,
                       !.poly_coeffs = coeffs, !.cal_type = ctype] :
        marg \in {None, Some(TRUE)},
        order \in {None} \cup {Some(n) : n \in 0..MaxPolyOrder},
        reg \in {None, Some(R(1))}, norm \in {None, Some(R(2))},
        coeffs \in {None, Some(<<R(1)>>)}, ctype \in {None, Some("poly")} }

CalObs ==
    { [wavelength |-> Some(GridA), spectrum |-> None, unc |-> None,
       mask |-> None, filters |-> Some(<<1>>)],
      [wavelength |-> None, spectrum |-> None, unc |-> None,
       mask |-> None, filters |-> Some(<<1>>)],
      [wavelength |-> Some(GridA), spectrum |-> Some(<<R(9), R(10), R(12)>>),
       unc |-> Some(<<R(1), R(2), R(1)>>), mask |-> None, filters |-> None],
      [wavelength |-> Some(GridA), spectrum |-> Some(<<R(9), R(10), R(12)>>),
       unc |-> Some(<<R(1), R(2), R(1)>>), mask |-> Some(<<TRUE, TRUE, FALSE>>),
       filters |-> None],
      [wavelength |-> Some(GridA), spectrum |-> Some(<<R(8), R(8), R(8)>>),
       unc |-> Some(<<R(1), R(2), R(1)>>), mask |-> None, filters |-> Some(<<1>>)],
      [wavelength |-> Some(GridC), spectrum |-> Some(<<R(9), R(10), R(12), R(8)>>),
       unc |-> Some(Ones(4)), mask |-> Some(<<TRUE, TRUE, TRUE, TRUE>>),
       filters |-> None],
      [wavelength |-> Some(GridA), spectrum |-> Some(<<R(0), R(0), R(0)>>),
       unc |-> Some(Ones(3)), mask |-> None, filters |-> None] }

\* every class is given every polyorder and poly_coeffs; a parameter that the
\* class never reads is left out of its parameter sets
CalParams(cls) ==
    { p \in AllCalParams :
        /\ cls \notin SpecClasses => p.marginalize_elines = None
        /\ cls \notin {"PolySpecModel", "PolySedModel"} => p.poly_regularization = None
        /\ cls \in SpecClasses => p.spec_norm = None
        /\ cls # "PolyFitModel" => p.cal_type = None }

CalInputs(cls) ==
    { in \in InputsOf(CalParams(cls), CalObs, SeqSps) : in.sigma = None }

NextCal ==
    \/ \E i \in DOMAIN self :
           ret[i].status = "none" /\ \E in \in CalInputs(self[i].cls) : Predict(i, in)
    \/ Step

SpecCal == Init /\ [][NextCal]_vars

----------------------------------------------------------------------------
(* Properties.                                                             *)

\* the call that instance i is executing, or executed last, is a predict of
\* SpecModel or PolySpecModel
SpecPredict(i) ==
    self[i].cls \in SpecClasses /\ frame[i].entry \in {"predict", "mean_model"}

\* output pixel j lies within nsigma line widths of the centre of line k
InWindow(s, k, j) ==
    LET lambda_obs == s._ewave_obs[k]
        sigma_lambda == RMul(RDiv(s._eline_sigma_kms[k], R(ckms)), lambda_obs)
    IN  RLt(RAbs(RSub(s._outwave[j], lambda_obs)), RMul(R(nsigma), sigma_lambda))

\* the instance as it was when get_el was entered
BeforeGetEl(i) == [self[i] EXCEPT !._eline_lum = frame[i].sps.eline_lum]

\* C1: in every SpecModel.predict call predict_spec has run to completion when
\* predict_phot starts, and after the marginalisation branch the photometry
\* returned is computed from the line luminosities that get_el wrote back in
\* that call.
C1_SpecBeforePhot ==
    \A i \in DOMAIN self :
        SpecPredict(i) =>
            /\ (pc[i] = "predict_phot" \/ frame[i].phot # NoValue) =>
                   (frame[i].mode # "unset" /\ "_sed" \in self[i].fresh)
            /\ (ret[i].status = "returned" /\ frame[i].mode = "marginalize") =>
                   /\ self[i]._eline_lum = frame[i].lum_after_lines
                   /\ frame[i].lum_after_lines =
                          get_el(BeforeGetEl(i), frame[i].obs, frame[i].calibrated_spec,
                                 frame[i].sigma_spec).self._eline_lum
                   /\ ret[i].phot =
                          predict_phot([self[i] EXCEPT
                                           !._eline_lum = frame[i].lum_after_lines],
                                       frame[i].obs.filters).out

\* a returned call in which get_el changed the luminosities and the
\* photometry differs from that of the source's luminosities
C1_Witness ==
    \E i \in DOMAIN self :
        /\ SpecPredict(i)
        /\ ret[i].status = "returned"
        /\ frame[i].mode = "marginalize"
        /\ frame[i].obs.filters # None
        /\ self[i]._eline_lum # frame[i].sps.eline_lum
        /\ ret[i].phot # predict_phot(BeforeGetEl(i), frame[i].obs.filters).out

\* C2: after any sequence of predict calls, once a call has returned every
\* cached attribute of the instance was written during that call: none holds
\* a value computed in an earlier call.
C2_CacheFromLatestCall ==
    \A i \in DOMAIN self :
        (SpecPredict(i) /\ pc[i] = "idle" /\ ret[i].status = "returned") =>
            self[i].has \subseteq self[i].fresh

\* C3: in predict_spec marginalisation runs iff marginalize_elines is true and
\* the line pixel mask has a true pixel; injection runs iff marginalisation
\* did not, nebemlineinspec is False and the mask has a true pixel; otherwise
\* the spectrum returned is smoothed spectrum times calibration vector; at
\* most one mode adds line flux.
C3_ModesExclusive ==
    \A i \in DOMAIN self :
        (SpecPredict(i) /\ frame[i].mode # "unset") =>
            LET s == self[i]
                any == AnyTrue(s._eline_wavelength_mask)
                marg == s.params.marginalize_elines = Some(TRUE) /\ any
                inject == ~marg /\ s.params.nebemlineinspec = Some(FALSE) /\ any
                plain == [k \in DOMAIN frame[i].smooth_spec |->
                             RMul(frame[i].smooth_spec[k], s._speccal[k])]
            IN  /\ (frame[i].mode = "marginalize") <=> marg
                /\ (frame[i].mode = "inject") <=> inject
                /\ (frame[i].mode = "none") <=> (~marg /\ ~inject)
                /\ frame[i].spec # <<>> =>
                       /\ ("_ln_eline_penalty" \in s.fresh) <=> marg
                       /\ ("_elinespec" \in s.fresh) <=> (marg \/ inject)
                       /\ frame[i].spec =
                              IF marg \/ inject
                              THEN AddLines(plain, s._eline_wavelength_mask, s._elinespec)
                              ELSE plain

\* a returned call in which injection, and only injection, added line flux
C3_Witness ==
    \E i \in DOMAIN self :
        /\ SpecPredict(i)
        /\ ret[i].status = "returned"
        /\ frame[i].mode = "inject"
        /\ frame[i].spec # frame[i].calibrated_spec
        /\ "_ln_eline_penalty" \notin self[i].fresh

\* the parameter values for which get_el must refuse to run
GetElRefused(params) ==
    params.nebemlineinspec = Some(TRUE) \/ params.add_neb_emission = Some(FALSE)

\* get_el was entered by the call of instance i
GetElCalled(i) == SpecPredict(i) /\ frame[i].mode = "marginalize"

\* the cached luminosities are the source's and no penalty was written
GetElLeftCache(i) ==
    /\ self[i]._eline_lum = frame[i].sps.eline_lum
    /\ "_ln_eline_penalty" \notin self[i].fresh
    /\ "_elinespec" \notin self[i].fresh

\* C4 (as stated): get_el ends with an assertion error whenever
\* nebemlineinspec is true or add_neb_emission is false, before changing the
\* cached line luminosities or the cached log-penalty.
C4_AssertionBeforeWrite ==
    \A i \in DOMAIN self :
        (GetElCalled(i) /\ GetElRefused(self[i].params)) =>
            /\ ret[i].status = "raised"
            /\ ret[i].exc = "AssertionError"
            /\ GetElLeftCache(i)

\* C4 (amended): get_el ends with an error whenever nebemlineinspec is true or
\* add_neb_emission is false, before changing the cached line luminosities or
\* the cached log-penalty; the error is an AssertionError, except that it is
\* a KeyError when nebemlineinspec is not among the parameters.
C4_FailsBeforeWrite ==
    \A i \in DOMAIN self :
        (GetElCalled(i) /\ GetElRefused(self[i].params)) =>
            /\ ret[i].status = "raised"
            /\ ret[i].exc = IF self[i].params.nebemlineinspec = None
                            THEN "KeyError" ELSE "AssertionError"
            /\ GetElLeftCache(i)

\* get_el was entered with add_neb_emission false and refused
C4_Witness ==
    \E i \in DOMAIN self :
        /\ GetElCalled(i)
        /\ self[i].params.nebemlineinspec = Some(FALSE)
        /\ self[i].params.add_neb_emission = Some(FALSE)
        /\ ret[i].exc = "AssertionError"

\* C5: predict_phot called with filters=None returns the scalar 0.0 and raises
\* no error in every state of the instance, one where predict_spec never ran
\* included, and leaves every cached attribute as it was.
C5_NoFiltersZero ==
    [][\A i \in DOMAIN self :
          PredictPhotCall(i, None) =>
              /\ ret'[i].status = "returned"
              /\ ret'[i].phot = PyFloat(R(0))
              /\ self'[i] = self[i]]_vars

\* predict_phot(None) has returned 0.0 on an instance that never ran predict
C5_Witness ==
    \E i \in DOMAIN self :
        /\ frame[i].entry = "predict_phot"
        /\ frame[i].obs.filters = None
        /\ self[i].has = {}
        /\ ret[i].status = "returned"
        /\ ret[i].phot = PyFloat(R(0))

\* the synthesis source raises in the call of instance i
SourceRaises(i) ==
    /\ frame[i].entry \in {"predict", "mean_model"}
    /\ IF self[i].cls \in SpecClasses
       THEN frame[i].sps.raises \in {"spectrum", "elines"}
       ELSE frame[i].sps.raises = "spectrum"

\* C6: if the synthesis source raises while producing the spectrum or the
\* emission line arrays, SpecModel.predict and SedModel.sed/predict end with
\* that error and return no (spectrum, photometry, extras) result.
C6_SourceErrorPropagates ==
    \A i \in DOMAIN self :
        SourceRaises(i) =>
            /\ ret[i].status # "returned"
            /\ frame[i].spec = <<>>
            /\ frame[i].phot = NoValue
            /\ pc[i] = "idle" =>
                   ret[i] = [Pending EXCEPT !.status = "raised", !.exc = "SourceError"]

\* a SedModel predict has ended with the source's error
C6_Witness ==
    \E i \in DOMAIN self :
        /\ SourceRaises(i)
        /\ self[i].cls = "SedModel"
        /\ pc[i] = "idle"
        /\ ret[i].exc = "SourceError"

\* C7: with no observed spectrum cache_eline_parameters caches the observed
\* line wavelengths and widths, the line selection is None and the line pixel
\* mask has no true pixel, so predict_spec runs neither the solve nor the
\* injection, and no error is raised.
C7_NoSpectrumNoSelection ==
    \A i \in DOMAIN self :
        (/\ SpecPredict(i)
         /\ frame[i].obs.spectrum = None
         /\ "_eline_wavelength_mask" \in self[i].fresh) =>
            LET s == self[i]
            IN  /\ {"_ewave_obs", "_eline_sigma_kms"} \subseteq s.fresh
                /\ s._ewave_obs = Scale(s._eline_wave, RAdd(R(1), s._zred))
                /\ s._eline_sigma_kms =
                       [k \in DOMAIN s._eline_wave |-> R(default_eline_sigma)]
                /\ s._elines_to_fit = None
                /\ ~AnyTrue(s._eline_wavelength_mask)
                /\ frame[i].mode \in {"unset", "none"}
                /\ {"_elinespec", "_ln_eline_penalty"} \cap s.fresh = {}
                /\ ret[i].status # "raised"
                /\ pc[i] = "idle" => ret[i].status = "returned"

\* a call without a spectrum has returned although both line flags ask for
\* the marginalisation
C7_Witness ==
    \E i \in DOMAIN self :
        /\ SpecPredict(i)
        /\ frame[i].obs.spectrum = None
        /\ frame[i].obs.wavelength # None
        /\ self[i].params.marginalize_elines = Some(TRUE)
        /\ self[i].params.nebemlineinspec = Some(FALSE)
        /\ ret[i].status = "returned"
        /\ frame[i].mode = "none"

\* the allow-list names line k
NamesLine(allow, k) == \E j \in DOMAIN allow : allow[j].text = LineText[k]

\* cache_eline_parameters has made its selection in the call of instance i
SelectionMade(i) ==
    /\ SpecPredict(i)
    /\ frame[i].obs.spectrum # None
    /\ "_eline_wavelength_mask" \in self[i].fresh

\* C8: after cache_eline_parameters with a spectrum present, line k is
\* selected for fitting iff (the allow-list is empty or names line k) and some
\* output pixel lies within nsigma line widths of the line.
C8_SelectedIffAllowedAndInRange ==
    \A i \in DOMAIN self :
        SelectionMade(i) =>
            LET s == self[i]
                allow == Get(s.params.lines_to_fit, <<>>)
            IN  /\ s._elines_to_fit # None
                /\ \A k \in 1..NLine :
                       s._elines_to_fit[1][k] <=>
                           /\ allow = <<>> \/ NamesLine(allow, k)
                           /\ \E j \in DOMAIN s._outwave : InWindow(s, k, j)

\* C9: after cache_eline_parameters with a spectrum present, pixel j is in the
\* line pixel mask iff a selected line has it within nsigma widths; the mask
\* has a true pixel iff a line is selected; every selected line has a masked
\* pixel.
C9_MaskIsUnionOfSelected ==
    \A i \in DOMAIN self :
        SelectionMade(i) =>
            LET s == self[i]
                mask == s._eline_wavelength_mask
            IN  /\ s._elines_to_fit # None
                /\ DOMAIN mask = DOMAIN s._outwave
                /\ \A j \in DOMAIN mask :
                       mask[j] <=> \E k \in 1..NLine :
                                       s._elines_to_fit[1][k] /\ InWindow(s, k, j)
                /\ AnyTrue(mask) <=> AnyTrue(s._elines_to_fit[1])
                /\ \A k \in 1..NLine :
                       s._elines_to_fit[1][k] =>
                           \E j \in DOMAIN mask : mask[j] /\ InWindow(s, k, j)

\* a selection with a selected and an unselected line, a masked and an
\* unmasked pixel
C9_Witness ==
    \E i \in DOMAIN self :
        /\ SelectionMade(i)
        /\ \E k \in 1..NLine : self[i]._elines_to_fit[1][k]
        /\ \E k \in 1..NLine : ~self[i]._elines_to_fit[1][k]
        /\ \E j \in DOMAIN self[i]._outwave : self[i]._eline_wavelength_mask[j]
        /\ \E j \in DOMAIN self[i]._outwave : ~self[i]._eline_wavelength_mask[j]

\* C10: mean_model(theta, obs, sps, sigma) returns what
\* predict(theta, obs, sps, sigma_spec=sigma) returns and leaves the same
\* cached state, for SpecModel and SedModel alike; the covariance reaches the
\* emission line solver as it does through predict.
C10_MeanModelIsPredict ==
    frame[2].entry = "mean_model" =>
        /\ self[2].cls \in SpecClasses => frame[2].sigma_spec = frame[1].sigma_spec
        /\ (pc[1] = "idle" /\ pc[2] = "idle") =>
               /\ ret[2] = ret[1]
               /\ self[2] = self[1]

\* both calls have returned after a solve that used the covariance passed in
C10_Witness ==
    /\ pc[1] = "idle" /\ pc[2] = "idle"
    /\ frame[2].entry = "mean_model"
    /\ self[2].cls = "SpecModel"
    /\ frame[2].mode = "marginalize"
    /\ frame[2].sigma_spec # None
    /\ ret[2].status = "returned"
    /\ "_ln_eline_penalty" \in self[2].fresh

\* the predict call of instance i has computed its calibration
Calibrated(i) ==
    /\ frame[i].entry = "predict"
    /\ "_speccal" \in self[i].fresh

\* C11: when the observation holds no observed spectrum, the calibration of
\* every strategy raises no error and is the vector of ones (SpecModel,
\* PolySpecModel) or the scalar normalisation (SedModel, PolySedModel,
\* PolyFitModel), whatever polyorder or poly_coeffs the parameters hold.
C11_NoSpectrumScalarCalibration ==
    \A i \in DOMAIN self :
        (frame[i].entry = "predict" /\ frame[i].obs.spectrum = None) =>
            /\ ret[i].status # "raised"
            /\ Calibrated(i) =>
                   self[i]._speccal =
                       IF self[i].cls \in SpecClasses
                       THEN [k \in DOMAIN self[i]._outwave |-> R(1)]
                       ELSE PyFloat(Get(self[i].params.spec_norm, R(1)))

\* the inverse-variance weighted mean of observed / model - 1 over the pixels
\* the polynomial is fitted to
WeightedMeanResidual(s, obs, model) ==
    LET mask == PolyFitMask(s, obs)
        y    == Select([k \in DOMAIN model |->
                           RSub(RDiv(obs.spectrum[1][k], model[k]), R(1))], mask)
        yerr == Select(Ratio(obs.unc[1], model), mask)
        w    == [k \in DOMAIN yerr |-> RDiv(R(1), RMul(yerr[k], yerr[k]))]
    IN  RDiv(SumSeq([k \in DOMAIN y |-> RMul(y[k], w[k])]), SumSeq(w))

\* C12: with polyorder = 0 and an observed spectrum, PolySpecModel's
\* calibration is 1 + c on every pixel, c the inverse-variance weighted mean
\* of observed / model - 1 over the unmasked pixels.
C12_OrderZeroIsWeightedMean ==
    \A i \in DOMAIN self :
        ( /\ Calibrated(i)
          /\ self[i].cls = "PolySpecModel"
          /\ self[i].params.polyorder = Some(0)
          /\ frame[i].obs.spectrum # None ) =>
            self[i]._speccal =
                [k \in DOMAIN self[i]._outwave |->
                    RAdd(R(1), WeightedMeanResidual(self[i], frame[i].obs,
                                                    frame[i].smooth_spec))]

\* the predict call of instance i fits a regularised polynomial of order
\* n >= 1 to an observed spectrum with at least one pixel to fit
RidgeFit(i) ==
    /\ frame[i].entry = "predict"
    /\ self[i].cls \in {"PolySpecModel", "PolySedModel"}
    /\ Get(self[i].params.polyorder, 0) >= 1
    /\ frame[i].obs.spectrum # None
    /\ RGt(Get(self[i].params.poly_regularization, R(0)), R(0))
    /\ Get(self[i].params.marginalize_elines, FALSE) = FALSE

\* C13: with polyorder n >= 1, an observed spectrum and
\* poly_regularization > 0, the ridge term has the dimensions of the normal
\* matrix: the fit of PolySpecModel and of PolySedModel completes without an
\* error and the calibration holds one value per output pixel.
C13_RidgeFitCompletes ==
    \A i \in DOMAIN self :
        RidgeFit(i) =>
            /\ ret[i].status # "raised"
            /\ Calibrated(i) =>
                   IF self[i].cls = "PolySpecModel"
                   THEN Len(self[i]._speccal) = Len(self[i]._outwave)
                   ELSE /\ self[i]._speccal.kind = "ndarray"
                        /\ Len(self[i]._speccal.val) =
                               Len(frame[i].obs.wavelength[1])

\* C14: while a call of predict (of any class) runs, no step changes an entry
\* of the observation it was given: wavelength, mask, spectrum, unc and
\* filters stay as passed in, the mask included when the line pixels are
\* taken out of the Chebyshev fit.
C14_ObservationUnchanged ==
    [][\A i \in DOMAIN self : pc[i] # "idle" => frame'[i].obs = frame[i].obs]_vars

\* a PolySpecModel fit has excluded a line pixel that the observation's own
\* mask keeps, and the call has returned
C14_Witness ==
    \E i \in DOMAIN self :
        /\ self[i].cls = "PolySpecModel"
        /\ Calibrated(i)
        /\ ret[i].status = "returned"
        /\ Get(self[i].params.polyorder, 0) > 0
        /\ Get(self[i].params.marginalize_elines, FALSE)
        /\ frame[i].obs.spectrum # None
        /\ frame[i].obs.mask # None
        /\ \E k \in DOMAIN self[i]._outwave :
               frame[i].obs.mask[1][k] /\ self[i]._eline_wavelength_mask[k]

\* C15: a step of one instance leaves the Model State of every other
\* instance, and what that instance returned, as they were: instances whose
\* predict calls interleave share no state that one writes and another
\* reads, the line luminosities get_el writes in place included.
C15_NoWriteAcrossInstances ==
    [][\A j \in DOMAIN self :
          pc'[j] = pc[j] => (self'[j] = self[j] /\ ret'[j] = ret[j])]_vars

\* get_el has returned in the call of instance i
Marginalized(i) ==
    /\ self[i].cls \in SpecClasses
    /\ frame[i].mode = "marginalize"
    /\ "_elinespec" \in self[i].fresh

\* the observed spectrum equals the calibrated model on every line pixel
ZeroResidual(i) ==
    \A k \in DOMAIN self[i]._outwave :
        self[i]._eline_wavelength_mask[k] =>
            frame[i].obs.spectrum[1][k] = frame[i].calibrated_spec[k]

\* C16: when get_el runs without a prior and the observed spectrum equals the
\* calibrated model on every line pixel, the fitted amplitudes are zero (the
\* luminosity written back for every fitted line is 0), the line spectrum it
\* returns is zero on every pixel and line, and predict_spec returns the
\* calibrated continuum.
C16_ZeroResidualZeroLines ==
    \A i \in DOMAIN self :
        ( /\ Marginalized(i)
          /\ ZeroResidual(i)
          /\ Get(self[i].params.use_eline_prior, FALSE) = FALSE ) =>
            /\ \A k \in DOMAIN self[i]._elinespec :
                   \A l \in DOMAIN self[i]._elinespec[k] :
                       self[i]._elinespec[k][l] = R(0)
            /\ \A l \in DOMAIN self[i]._eline_lum :
                   self[i]._elines_to_fit[1][l] => self[i]._eline_lum[l] = R(0)
            /\ frame[i].spec = frame[i].calibrated_spec

\* get_el has fitted at least one line to a zero residual
C16_Witness ==
    \E i \in DOMAIN self :
        /\ Marginalized(i)
        /\ ZeroResidual(i)
        /\ Get(self[i].params.use_eline_prior, FALSE) = FALSE
        /\ \E l \in DOMAIN self[i]._eline_lum : self[i]._elines_to_fit[1][l]
        /\ \E k \in DOMAIN self[i]._outwave : self[i]._eline_wavelength_mask[k]
        /\ \E l \in DOMAIN frame[i].sps.eline_lum :
               frame[i].sps.eline_lum[l] # R(0)

\* the signed trapezoidal integral over nu = 3e18 / wave of column l of G
ColumnIntegral(G, l, wave) ==
    Trapz([k \in DOMAIN G |-> G[k][l]],
          [k \in DOMAIN wave |-> RDiv(R(nu_numerator), wave[k])])

\* C17: every column of the matrix get_eline_gaussians returns has a signed
\* trapezoidal integral over frequency of +1 or -1; here for the call
\* get_eline_spec makes (every line, the line pixels of the output grid).
C17_ColumnsIntegrateToUnit ==
    \A i \in DOMAIN self :
        (pc[i] = "lines" /\ ElineMode(self[i]) = "inject") =>
            LET wave == Select(self[i]._outwave, self[i]._eline_wavelength_mask)
                G == get_eline_gaussians(self[i], AllLines, Some(wave))
            IN  \A l \in 1..NLine :
                    \/ ColumnIntegral(G, l, wave) = R(1)
                    \/ ColumnIntegral(G, l, wave) = R(-1)

\* the luminosity distance flux_norm uses, in units of 10 pc
LumDistUsed(s) ==
    IF s.params.lumdist # None THEN s.params.lumdist[1]
    ELSE IF s._zred = R(0) THEN R(default_lumdist)
    ELSE cosmo_luminosity_distance(s._zred)

TotalMass(s) == IF s.params.mass = None THEN R(1) ELSE SumSeq(s.params.mass[1])

\* the call of instance i has applied flux_norm to the source spectrum
Normalised(i) ==
    /\ self[i].cls \in SpecClasses
    /\ "_norm_spec" \in self[i].fresh

\* C18: flux_norm is proportional to the total mass and to (1 + z) and
\* inversely proportional to the square of the luminosity distance:
\* flux_norm * lumdist^2 = mass * unit factor * (1 + z); at z = 0 with the
\* distance of 10 pc the distance factor is 1 and flux_norm is the mass times
\* the unit conversion.
C18_FluxNormScaling ==
    \A i \in DOMAIN self :
        Normalised(i) =>
            \A k \in DOMAIN self[i]._norm_spec :
                /\ RMul(self[i]._norm_spec[k],
                        RMul(LumDistUsed(self[i]), LumDistUsed(self[i])))
                     = RMul(self[i]._spec[k],
                            RMul(TotalMass(self[i]),
                                 RMul(R(to_cgs_per_maggie),
                                      RAdd(R(1), self[i]._zred))))
                /\ (self[i]._zred = R(0) /\ LumDistUsed(self[i]) = R(default_lumdist))
                       => self[i]._norm_spec[k] =
                              RMul(self[i]._spec[k],
                                   RMul(TotalMass(self[i]), R(to_cgs_per_maggie)))

\* flux_norm has been applied with a mass of several components, a redshift
\* above zero and a distance given in the parameters other than 10 pc
C18_Witness ==
    \E i \in DOMAIN self :
        /\ Normalised(i)
        /\ self[i].params.mass # None /\ Len(self[i].params.mass[1]) > 1
        /\ self[i]._zred # R(0)
        /\ self[i].params.lumdist # None
        /\ self[i].params.lumdist[1] # R(default_lumdist)

\* b holds the elements of a in the same strict order
SameStrictOrder(a, b) ==
    \A k, l \in DOMAIN a : RLt(a[k], a[l]) => RLt(b[k], b[l])

\* observed_wave returned wave * (1 + z), element by element
ScaledByRedshift(i) ==
    /\ ret[i].status = "returned"
    /\ ret[i].spec = [k \in DOMAIN self[i]._wave |->
                         RMul(self[i]._wave[k], RAdd(R(1), self[i]._zred))]

\* C19 as stated: for every grid and every redshift observed_wave returns
\* wave * (1 + z) in the strict order of the grid, and with do_wavecal=True
\* it raises NotImplementedError.
C19_ObservedWaveMonotonic ==
    \A i \in DOMAIN self :
        /\ frame[i].entry = "observed_wave" =>
               /\ ScaledByRedshift(i)
               /\ SameStrictOrder(self[i]._wave, ret[i].spec)
        /\ frame[i].entry = "observed_wave_wavecal" =>
               (ret[i].status = "raised" /\ ret[i].exc = "NotImplementedError")

\* C19, amended: observed_wave returns wave * (1 + z) for every grid and
\* redshift; the strict order of the grid is kept when 1 + z > 0; with
\* do_wavecal=True it raises NotImplementedError.
C19_ObservedWaveMonotonicAboveMinusOne ==
    \A i \in DOMAIN self :
        /\ frame[i].entry = "observed_wave" =>
               /\ ScaledByRedshift(i)
               /\ RGt(RAdd(R(1), self[i]._zred), R(0)) =>
                      SameStrictOrder(self[i]._wave, ret[i].spec)
        /\ frame[i].entry = "observed_wave_wavecal" =>
               (ret[i].status = "raised" /\ ret[i].exc = "NotImplementedError")

\* observed_wave has returned a grid for a redshift above zero
C19_Witness ==
    \E i \in DOMAIN self :
        /\ frame[i].entry = "observed_wave"
        /\ ret[i].status = "returned"
        /\ RGt(self[i]._zred, R(0))
        /\ Len(ret[i].spec) > 1

\* C20: whatever the caller does to the values lookups returned, every
\* stored entry of the Directory stays as it was registered, and every value
\* a lookup returned that the caller has not changed itself equals the entry
\* as registered.
C20_LookupsAreCopies ==
    /\ \A k \in DOMAIN self[1]._entries : self[1]._entries[k] = Templates[k]
    /\ \A h \in DOMAIN frame[1].held :
           ~frame[1].held[h].mutated =>
               frame[1].held[h].value = Templates[frame[1].held[h].key]

\* a name has been looked up again after a value retrieved under it was
\* changed, both in a parameter and in its set of parameters
C20_Witness ==
    \E g, h \in DOMAIN frame[1].held :
        /\ frame[1].held[h].later /\ ~frame[1].held[h].mutated
        /\ frame[1].held[g].key = frame[1].held[h].key
        /\ frame[1].held[g].mutated
        /\ DOMAIN frame[1].held[g].value # DOMAIN Templates[frame[1].held[g].key]
        /\ \E p \in DOMAIN frame[1].held[g].value :
               frame[1].held[g].value[p] # Templates[frame[1].held[g].key][p]

\* the source spectrum of instance i scaled as flux_norm scales it at the
\* luminosity distance d
NormalisedAt(i, d) ==
    self[i]._norm_spec =
        [k \in DOMAIN self[i]._spec |->
            RMul(self[i]._spec[k],
                 RDiv(RMul(TotalMass(self[i]),
                           RMul(R(to_cgs_per_maggie), RAdd(R(1), self[i]._zred))),
                      RMul(d, d)))]

\* C21: flux_norm takes the luminosity distance from the lumdist parameter
\* whenever it is present, whatever the redshift; without lumdist and at
\* redshift 0 it uses the default of 10 pc; only without lumdist and at a
\* non-zero redshift does it take the distance from the cosmology.
C21_LumDistSource ==
    \A i \in DOMAIN self :
        Normalised(i) =>
            /\ self[i].params.lumdist # None =>
                   NormalisedAt(i, self[i].params.lumdist[1])
            /\ (self[i].params.lumdist = None /\ self[i]._zred = R(0)) =>
                   NormalisedAt(i, R(default_lumdist))
            /\ (self[i].params.lumdist = None /\ self[i]._zred # R(0)) =>
                   NormalisedAt(i, cosmo_luminosity_distance(self[i]._zred))

\* flux_norm has run at a non-zero redshift with a lumdist parameter that
\* differs from the distance the cosmology gives
C21_Witness ==
    \E i \in DOMAIN self :
        /\ Normalised(i)
        /\ self[i]._zred # R(0)
        /\ self[i].params.lumdist # None
        /\ self[i].params.lumdist[1] # cosmo_luminosity_distance(self[i]._zred)
        /\ self[i].params.lumdist[1] # R(default_lumdist)

\* get_el is entered on instance i and returns
GetElReturns(i) ==
    /\ pc[i] = "lines"
    /\ ElineMode(self[i]) = "marginalize"
    /\ pc'[i] # pc[i]
    /\ ret'[i].status # "raised"

\* the amplitude of fitted line r that the returned line spectrum was built
\* with, read off a pixel where the line's basis function is not zero
AmplitudeIn(elinespec, G, r) ==
    LET pixels == { k \in DOMAIN G : IsFinite(G[k][r]) /\ G[k][r] # R(0) }
    IN  IF pixels = {} THEN None
        ELSE Some(LET k == CHOOSE k \in pixels : TRUE
                  IN  RDiv(elinespec[k][r], G[k][r]))

LinesWrittenFrom(i, idx, linecal, G) ==
    \A l \in DOMAIN self[i]._eline_lum :
        IF idx[l]
        THEN (/\ Get(self[i].params.use_eline_prior, FALSE) = FALSE
              /\ AmplitudeIn(self'[i]._elinespec, G, Rank(idx, l)) # None) =>
                 self'[i]._eline_lum[l] =
                     RDiv(AmplitudeIn(self'[i]._elinespec, G, Rank(idx, l))[1],
                          linecal[Rank(idx, l)])
        ELSE self'[i]._eline_lum[l] = self[i]._eline_lum[l]

LinesWritten(i) ==
    LinesWrittenFrom(i, self[i]._elines_to_fit[1],
        LineCal(self[i], Select(self[i]._ewave_obs, self[i]._elines_to_fit[1]),
                Select(self[i]._outwave, self[i]._eline_wavelength_mask),
                Select(self[i]._speccal, self[i]._eline_wavelength_mask)),
        Matrix(get_eline_gaussians(self[i], self[i]._elines_to_fit[1],
                   Some(Select(self[i]._outwave, self[i]._eline_wavelength_mask)))))

Pinv1(x) == IF x = R(0) THEN R(0) ELSE RDiv(R(1), x)

\* the conjugate posterior mean of one amplitude: likelihood N(alpha_hat,
\* sigma_hat), prior N(alpha_breve, sigma_breve)
PosteriorMean1(alpha_hat, sigma_hat, alpha_breve, sigma_breve) ==
    RAdd(RMul(sigma_breve, RMul(Pinv1(RAdd(sigma_hat, sigma_breve)), alpha_hat)),
         RMul(sigma_hat, RMul(Pinv1(RAdd(sigma_hat, sigma_breve)), alpha_breve)))

\* the variance of the ML amplitude of the one fitted line, column 1 of G
SigmaHat1(G, variance) ==
    Pinv1(SumSeq([k \in DOMAIN G |-> RDiv(RMul(G[k][1], G[k][1]), variance[k])]))

\* the luminosity get_el leaves for line l when it is the only line fitted
\* under the prior
PriorLuminosity(i, l, G, linecal, variance, alpha_hat) ==
    LET alpha_breve == RMul(self[i]._eline_lum[l], linecal[1])
        width == self[i].params.eline_prior_width[1]
        sigma_breve == RMul(RMul(width, RAbs(alpha_breve)),
                            RMul(width, RAbs(alpha_breve)))
    IN  RDiv(PosteriorMean1(alpha_hat, SigmaHat1(G, variance), alpha_breve,
                            sigma_breve),
             linecal[1])

OneLineFitted(idx) == Cardinality({ l \in DOMAIN idx : idx[l] }) = 1

MarginalizedFrom(i, idx, emask, G, linecal, variance) ==
    /\ frame'[i].spec = AddLines(frame[i].calibrated_spec, emask, self'[i]._elinespec)
    /\ self'[i]._elinespec =
           get_el([self[i] EXCEPT !.params.use_eline_prior = Some(FALSE)],
                  frame[i].obs, frame[i].calibrated_spec, frame[i].sigma_spec).out
    /\ \A l \in DOMAIN idx :
           (idx[l] /\ AmplitudeIn(self'[i]._elinespec, G, Rank(idx, l)) # None) =>
               IF Get(self[i].params.use_eline_prior, FALSE) = FALSE
               THEN self'[i]._eline_lum[l] =
                        RDiv(AmplitudeIn(self'[i]._elinespec, G, Rank(idx, l))[1],
                             linecal[Rank(idx, l)])
               ELSE OneLineFitted(idx) =>
                        self'[i]._eline_lum[l] =
                            PriorLuminosity(i, l, G, linecal, variance,
                                AmplitudeIn(self'[i]._elinespec, G, 1)[1])

MarginalizedStep(i) ==
    MarginalizedFrom(i, self[i]._elines_to_fit[1], self[i]._eline_wavelength_mask,
        Matrix(get_eline_gaussians(self[i], self[i]._elines_to_fit[1],
                   Some(Select(self[i]._outwave, self[i]._eline_wavelength_mask)))),
        LineCal(self[i], Select(self[i]._ewave_obs, self[i]._elines_to_fit[1]),
                Select(self[i]._outwave, self[i]._eline_wavelength_mask),
                Select(self[i]._speccal, self[i]._eline_wavelength_mask)),
        Select(GetElVariance(frame[i].obs, frame[i].sigma_spec),
               self[i]._eline_wavelength_mask))

PriorShifts(i, idx, G, linecal) ==
    \E l \in DOMAIN idx :
        /\ idx[l]
        /\ AmplitudeIn(self[i]._elinespec, G, Rank(idx, l)) # None
        /\ IsFinite(self[i]._eline_lum[l])
        /\ IsFinite(AmplitudeIn(self[i]._elinespec, G, Rank(idx, l))[1])
        /\ linecal[Rank(idx, l)] # R(0)
        /\ RMul(self[i]._eline_lum[l], linecal[Rank(idx, l)]) #
               AmplitudeIn(self[i]._elinespec, G, Rank(idx, l))[1]

SpecReturned(i) ==
    /\ frame[i].mode \in {"marginalize", "inject", "none"}
    /\ frame[i].spec # <<>>
    /\ "_sed" \in self[i].fresh

\* C24: after every predict_spec call the cached _sed times the cached
\* _speccal is the returned spectrum on every output pixel, line flux
\* included
C24_SedTimesCalibrationIsSpectrum ==
    \A i \in DOMAIN self :
        SpecReturned(i) =>
            \A k \in DOMAIN frame[i].spec :
                RMul(self[i]._sed[k], self[i]._speccal[k]) = frame[i].spec[k]

\* C24 where the division can be undone: on every output pixel whose
\* calibration and returned flux are finite and whose calibration is not zero
C24_SedTimesCalibrationWhereNonZero ==
    \A i \in DOMAIN self :
        SpecReturned(i) =>
            \A k \in DOMAIN frame[i].spec :
                (/\ IsFinite(self[i]._speccal[k]) /\ self[i]._speccal[k] # R(0)
                 /\ IsFinite(frame[i].spec[k])) =>
                    RMul(self[i]._sed[k], self[i]._speccal[k]) = frame[i].spec[k]

\* predict_spec has returned a spectrum with line flux added under a
\* calibration that is not 1
C24_Witness ==
    \E i \in DOMAIN self :
        /\ SpecReturned(i)
        /\ frame[i].mode \in {"marginalize", "inject"}
        /\ \E k \in DOMAIN frame[i].spec :
               /\ frame[i].spec[k] # frame[i].calibrated_spec[k]
               /\ IsFinite(frame[i].spec[k])
               /\ IsFinite(self[i]._speccal[k])
               /\ self[i]._speccal[k] \notin {R(0), R(1)}

\* sed has returned on instance i and predict has not yet calibrated
SedReturned(i) ==
    /\ self[i].cls \notin SpecClasses
    /\ pc[i] = "sed_calibrate"

\* the synthesis spectrum after the normalization guess
GuessedSpectrum(i) ==
    Array(Scale(sps_get_spectrum(frame[i].sps, frame[i].obs).spec,
                NormalizationGuess(frame[i].obs)))

PositiveFluxes(raw) == { raw[k] : k \in { j \in DOMAIN raw : RGt(raw[j], R(0)) } }

TinyOf(raw) ==
    RDiv(CHOOSE a \in PositiveFluxes(raw) : \A b \in PositiveFluxes(raw) : ~RLt(b, a),
         R(Len(raw)))

FlooredFrom(raw, spec) ==
    IF PositiveFluxes(raw) # {}
    THEN /\ RGt(TinyOf(raw), R(0))
         /\ \A k \in DOMAIN raw :
                /\ ~RLt(spec[k], TinyOf(raw))
                /\ ~RLt(raw[k], TinyOf(raw)) => spec[k] = raw[k]
                /\ RLt(raw[k], TinyOf(raw)) => spec[k] = TinyOf(raw)
    ELSE spec = raw

\* C25: SedModel.sed returns a spectrum whose every value is at least
\* tiny = (smallest positive flux) / (number of pixels) > 0, values already
\* that large unchanged, when the synthesis spectrum (after the
\* normalization guess) has a positive value; with no positive value the
\* call still returns, and returns the spectrum as it is
C25_SedFloorsFlux ==
    \A i \in DOMAIN self :
        (/\ self[i].cls \notin SpecClasses
         /\ ret[i].status # "none" /\ pc[i] # "sed"
         /\ frame[i].sps.raises # "spectrum") =>
            /\ "_spec" \in self[i].fresh
            /\ DOMAIN self[i]._spec = DOMAIN GuessedSpectrum(i)
            /\ FlooredFrom(GuessedSpectrum(i), self[i]._spec)
            /\ SedReturned(i) => frame[i].spec = self[i]._spec

\* sed has returned a spectrum in which a non-positive flux was raised to
\* tiny and a flux above tiny was kept
C25_Witness ==
    \E i \in DOMAIN self :
        /\ SedReturned(i)
        /\ PositiveFluxes(GuessedSpectrum(i)) # {}
        /\ \E k, m \in DOMAIN frame[i].spec :
               /\ ~RGt(GuessedSpectrum(i)[k], R(0))
               /\ frame[i].spec[k] = TinyOf(GuessedSpectrum(i))
               /\ RGt(frame[i].spec[m], TinyOf(GuessedSpectrum(i)))
               /\ frame[i].spec[m] = GuessedSpectrum(i)[m]

\* sed has returned a spectrum that has no positive flux
C25_WitnessNoPositive ==
    \E i \in DOMAIN self :
        /\ SedReturned(i)
        /\ PositiveFluxes(GuessedSpectrum(i)) = {}
        /\ \E k \in DOMAIN frame[i].spec : RLt(frame[i].spec[k], R(0))

\* predict has returned photometry through filters with the line
\* contribution added
LinePhotometryReturned(i) ==
    /\ self[i].cls \in SpecClasses
    /\ ret[i].status = "returned"
    /\ ret[i].phot.kind = "ndarray"
    /\ frame[i].obs.filters # None
    /\ Get(self[i].params.nebemlineinspec, FALSE) = FALSE

\* the transmission of filter f at the observed wavelength of line l, zero
\* outside the filter's wavelength range
TransmissionAt(i, f, l) ==
    IF \/ RLt(self[i]._ewave_obs[l], Filters[f].wavelength[1])
       \/ RGt(self[i]._ewave_obs[l], Filters[f].wavelength[Len(Filters[f].wavelength)])
    THEN R(0)
    ELSE Interp(self[i]._ewave_obs[l], Filters[f].wavelength, Filters[f].transmission)

\* the luminosity of line l as a flux in maggies-compatible units
LineFlux(i, l) ==
    RMul(self[i]._eline_lum[l],
         RMul(RDiv(flux_norm(self[i]), RAdd(R(1), self[i]._zred)), R(maggie_cgs)))

\* the contribution of line l to the photometry in filter f
LineTerm(i, f, l) ==
    IF RGt(TransmissionAt(i, f, l), R(0))
    THEN RMul(RMul(TransmissionAt(i, f, l), self[i]._ewave_obs[l]), LineFlux(i, l))
    ELSE R(0)

\* C26: the line photometry in a filter is the sum over the lines whose
\* transmission at the observed line wavelength is > 0 of transmission *
\* observed wavelength * line luminosity, divided by the filter's
\* ab_zero_counts; a filter with no such line gets exactly 0
C26_LinePhotometry ==
    \A i \in DOMAIN self :
        LinePhotometryReturned(i) =>
            \A n \in DOMAIN ret[i].phot.val :
                ret[i].phot.val[n] =
                    RAdd(getSED_maggies(observed_wave(self[i], self[i]._wave, FALSE).out,
                                        self[i]._norm_spec, frame[i].obs.filters[1])[n],
                         IF \E l \in DOMAIN self[i]._ewave_obs :
                                RGt(TransmissionAt(i, frame[i].obs.filters[1][n], l), R(0))
                         THEN RDiv(SumSeq([l \in DOMAIN self[i]._ewave_obs |->
                                       LineTerm(i, frame[i].obs.filters[1][n], l)]),
                                   Filters[frame[i].obs.filters[1][n]].ab_zero_counts)
                         ELSE R(0))

\* photometry was returned through a filter with one line inside it and one
\* line of non-zero luminosity outside its wavelength range
C26_Witness ==
    \E i \in DOMAIN self :
        /\ LinePhotometryReturned(i)
        /\ \E n \in DOMAIN ret[i].phot.val : \E l, m \in DOMAIN self[i]._ewave_obs :
               /\ IsFinite(ret[i].phot.val[n])
               /\ RGt(TransmissionAt(i, frame[i].obs.filters[1][n], l), R(0))
               /\ LineFlux(i, l) # R(0)
               /\ RGt(self[i]._ewave_obs[m],
                      Filters[frame[i].obs.filters[1][n]].wavelength[3])
               /\ LineFlux(i, m) # R(0)

\* C27: whenever predict_spec is about to take the marginalisation branch
\* (marginalize_elines true, a line pixel in the mask) the two assertions of
\* get_el are met: nebemlineinspec present and false, add_neb_emission
\* present and true
C27_MarginalizeMeetsPreconditions ==
    \A i \in DOMAIN self :
        (pc[i] = "lines" /\ ElineMode(self[i]) = "marginalize") =>
            /\ self[i].params.nebemlineinspec = Some(FALSE)
            /\ self[i].params.add_neb_emission = Some(TRUE)
            /\ GetElPrecondition(self[i].params) = None

\* predict has returned photometry through filters after a spectral stage
\* that had line pixels to add lines to
BothStagesDecided(i) ==
    /\ self[i].cls \in SpecClasses
    /\ ret[i].status = "returned"
    /\ ret[i].phot.kind = "ndarray"
    /\ frame[i].mode \in {"marginalize", "inject", "none"}
    /\ AnyTrue(self[i]._eline_wavelength_mask)

ContinuumPhotometry(i) ==
    getSED_maggies(observed_wave(self[i], self[i]._wave, FALSE).out,
                   self[i]._norm_spec, frame[i].obs.filters[1])

\* the photometry returned is the continuum with the line contribution added
PhotWithLines(i) ==
    ret[i].phot.val =
        [n \in DOMAIN ContinuumPhotometry(i) |->
            RAdd(ContinuumPhotometry(i)[n],
                 nebline_photometry(self[i], frame[i].obs.filters[1])[n])]

\* C28: the two stages of one predict call agree on whether the lines are
\* already in the synthesis spectrum: the photometry has the line
\* contribution added exactly when the spectral stage added lines itself
C28_StagesAgreeOnEmbeddedLines ==
    \A i \in DOMAIN self :
        BothStagesDecided(i) =>
            IF frame[i].mode = "none"
            THEN ret[i].phot.val = ContinuumPhotometry(i)
            ELSE PhotWithLines(i)

\* both instances have returned from predict with the same parameters on
\* the same output wavelength grid, lines injected explicitly
SameCallButData(i, k) ==
    /\ self[i].cls \in SpecClasses
    /\ ret[i].status = "returned" /\ ret[k].status = "returned"
    /\ self[i].params = self[k].params
    /\ frame[i].sps = frame[k].sps
    /\ self[i]._outwave = self[k]._outwave
    /\ Get(self[i].params.marginalize_elines, FALSE) = FALSE
    /\ self[i].params.nebemlineinspec = Some(FALSE)
    /\ frame[i].obs.spectrum # None /\ frame[k].obs.spectrum = None

\* C29: with marginalize_elines false and nebemlineinspec False, the
\* spectrum predict_spec returns for given parameters on a given output
\* wavelength grid is the same with and without an observed spectrum in the
\* observation
C29_SpectrumIndependentOfData ==
    \A i, k \in DOMAIN self :
        SameCallButData(i, k) => ret[i].spec = ret[k].spec

\* the lines predict_spec renders in the branch it is about to take
RenderedLines(s) ==
    IF ElineMode(s) = "marginalize" THEN s._elines_to_fit[1] ELSE AllLines

\* the normalisation divisor of line l on the line pixels of the output grid
DivisorOn(s, l, wave) ==
    TrapzDivisor([k \in DOMAIN wave |->
                     GaussianProfile(wave[k], s._ewave_obs[l], s._eline_sigma_kms[l])],
                 wave)

\* C30: on the line pixels of the output grid (one pixel or more) the
\* trapezoidal normalisation divisor of every rendered line is not zero, and
\* every pixel of the spectrum predict_spec returns after adding lines is
\* finite
C30_DivisorNonZeroSpectrumFinite ==
    \A i \in DOMAIN self :
        self[i].cls \in SpecClasses =>
            /\ (pc[i] = "lines" /\ ElineMode(self[i]) # "none") =>
                   \A l \in DOMAIN RenderedLines(self[i]) :
                       RenderedLines(self[i])[l] =>
                           DivisorOn(self[i], l,
                               Select(self[i]._outwave,
                                      self[i]._eline_wavelength_mask)) # R(0)
            /\ (frame[i].mode \in {"marginalize", "inject"} /\ frame[i].spec # <<>>) =>
                   \A k \in DOMAIN frame[i].spec : IsFinite(frame[i].spec[k])

====
